---- MODULE Spec2Model ----
(***************************************************************************)
(* The ASUS ROG Ally gamepad configuration driver (hid-asus-ally) as a     *)
(* state machine: the per-mode configuration store (struct                 *)
(* ally_gamepad_cfg), the sysfs store handlers that mutate it, the packet  *)
(* encoders, the readiness handshake and the ordered profile push          *)
(* (__gamepad_write_all_to_mcu).                                           *)
(*                                                                         *)
(* C arrays are functions over 0-based index ranges, so that every index   *)
(* expression reads as in the source.  A feature report is a function      *)
(* 0..63 -> byte.  Every request made to the transport is appended to the  *)
(* requesting handler's log together with the value the transport returned.*)
(* Allocation failures (kzalloc, kmemdup) are not modelled: the transport  *)
(* either accepts a report (returns its size) or fails with -EIO.          *)
(***************************************************************************)
EXTENDS Integers, Sequences, FiniteSets, TLC

VARIABLES
    cfg,    \* struct ally_gamepad_cfg of the one device
    th,     \* per handler thread: the handler it runs, its position, its locals
    log,    \* per handler thread: the transport requests of its handlers
    snap,   \* per handler thread: the store as it was when its push sent its first packet
    nops,   \* number of handler invocations so far (bounded by MaxOps)
    nfail,  \* number of transport failures so far (bounded by MaxFail)
    hs,     \* locals of the retry loop of __gamepad_check_ready
    led,    \* struct ally_gamepad_rgb_leds, its work item and the LED callbacks' positions
    rog,    \* the older variant of the driver: struct asus_rog_ally and its handlers
    reg,    \* ally_gamepad_register_leds: its position and what is initialised
    ally_x  \* the Ally X input driver: struct rog_ally_device and its work item

vars == <<cfg, th, log, snap, nops, nfail, hs, led, rog, reg, ally_x>>

\* ------------------------------------------------------------------ bounds
MaxOps == 2
MaxFail == 1
MaxSets == 3

\* --------------------------------------------------------------- constants
READY_MAX_TRIES == 4
FEATURE_ROG_ALLY_REPORT_ID == 90
FEATURE_ROG_ALLY_CODE_PAGE == 209
FEATURE_ROG_ALLY_REPORT_SIZE == 64
FEATURE_KBD_REPORT_ID == 90

Errno == [EIO |-> 5, ENOMEM |-> 12, EINVAL |-> 22, ENOMSG |-> 42]

\* char buf_copy[32] of __string_to_key_code
BUF_COPY_LEN == 32

ally_xpad_mode_game == 1
ally_xpad_mode_mouse == 3
ally_xpad_cmd_set_mode == 1
ally_xpad_cmd_check_ready == 10
ally_xpad_cmd_set_js_dz == 4
ally_xpad_cmd_set_tr_dz == 5
ally_xpad_axis_xy_left == 1
ally_xpad_axis_xy_right == 2
ally_xpad_axis_z_left == 3
ally_xpad_axis_z_right == 4

xpad_mode_game == 1
xpad_mode_wasd == 2
xpad_mode_mouse == 3

xpad_cmd_set_mode == 1
xpad_cmd_set_mapping == 2
xpad_cmd_set_js_dz == 4
xpad_cmd_set_tr_dz == 5
xpad_cmd_set_vibe_intensity == 6
xpad_cmd_check_ready == 10
xpad_cmd_set_turbo == 15
xpad_cmd_set_response_curve == 19
xpad_cmd_set_adz == 24
xpad_cmd_set_calibration == 13
xpad_cmd_set_leds == 8

xpad_cmd_len_mode == 1
xpad_cmd_len_mapping == 44
xpad_cmd_len_deadzone == 4
xpad_cmd_len_vibe_intensity == 2
xpad_cmd_len_turbo == 32
xpad_cmd_len_response_curve == 9
xpad_cmd_len_adz == 2
xpad_cmd_len_leds == 12
xpad_cmd_len_calibration2 == 1
xpad_cmd_len_calibration3 == 1

btn_pair_dpad_u_d == 1
btn_pair_dpad_l_r == 2
btn_pair_ls_rs == 3
btn_pair_lb_rb == 4
btn_pair_a_b == 5
btn_pair_x_y == 6
btn_pair_view_menu == 7
btn_pair_m1_m2 == 8
btn_pair_lt_rt == 9

btn_pair_side_left == 0
btn_pair_side_right == 1

xpad_axis_xy_left == 1
xpad_axis_xy_right == 2
xpad_axis_z_left == 3
xpad_axis_z_right == 4

BTN_CODE_LEN == 11
MAPPING_BLOCK_LEN == 44
TURBO_BLOCK_LEN == 32
TURBO_BLOCK_STEP == 2

\* ----------------------------------------------------------------- helpers
Byte == 0..255

\* (u8) conversion of an int
U8(v) == v % 256

\* a > b for two u32 variables that sscanf("%d") filled with the ints a and b
\* (a negative int reads as a value above every non-negative one)
U32Gt(a, b) == IF (a < 0) = (b < 0) THEN a > b ELSE a < 0

\* kzalloc(n): n zero bytes
Kzalloc(n) == [i \in 0..(n - 1) |-> 0]

\* memcpy(&dst[off], &src[0], n)
Memcpy(dst, off, src, n) ==
    [i \in DOMAIN dst |-> IF off <= i /\ i < off + n THEN src[i - off] ELSE dst[i]]

\* dst[off + k] = bytes[k + 1] for every byte of the sequence
Assign(dst, off, bytes) ==
    [i \in DOMAIN dst |->
        IF off <= i /\ i < off + Len(bytes) THEN bytes[i - off + 1] ELSE dst[i]]

Modes == xpad_mode_game..xpad_mode_mouse
Pairs == btn_pair_dpad_u_d..btn_pair_lt_rt

\* ------------------------------------------------------------ symbol table
\* The STR_TO_CODE_IF / STR_TO_CODE_ELIF chain of __string_to_key_code, in source
\* order: <<value of out[0], index written, code written, label macro>>.  The label
\* macros' string values are defined in hid-asus-ally-cfg.h; a label is named here
\* by its macro.
StrToCodeTable ==
    << <<1, 1, 1, "PAD_A">>, <<1, 1, 2, "PAD_B">>, <<1, 1, 3, "PAD_X">>, <<1, 1, 4, "PAD_Y">>,
       <<1, 1, 5, "PAD_LB">>, <<1, 1, 6, "PAD_RB">>, <<1, 1, 7, "PAD_LS">>,
       <<1, 1, 8, "PAD_RS">>, <<1, 1, 9, "PAD_DPAD_UP">>, <<1, 1, 10, "PAD_DPAD_DOWN">>,
       <<1, 1, 11, "PAD_DPAD_LEFT">>, <<1, 1, 12, "PAD_DPAD_RIGHT">>, <<1, 1, 17, "PAD_VIEW">>,
       <<1, 1, 18, "PAD_MENU">>, <<1, 1, 19, "PAD_XBOX">>, <<2, 2, 143, "KB_M1">>,
       <<2, 2, 142, "KB_M2">>, <<2, 2, 118, "KB_ESC">>, <<2, 2, 80, "KB_F1">>,
       <<2, 2, 96, "KB_F2">>, <<2, 2, 64, "KB_F3">>, <<2, 2, 12, "KB_F4">>, <<2, 2, 3, "KB_F5">>,
       <<2, 2, 11, "KB_F6">>, <<2, 2, 128, "KB_F7">>, <<2, 2, 10, "KB_F8">>,
       <<2, 2, 1, "KB_F9">>, <<2, 2, 9, "KB_F10">>, <<2, 2, 120, "KB_F11">>,
       <<2, 2, 7, "KB_F12">>, <<2, 2, 16, "KB_F14">>, <<2, 2, 24, "KB_F15">>,
       <<2, 2, 14, "KB_BACKTICK">>, <<2, 2, 22, "KB_1">>, <<2, 2, 30, "KB_2">>,
       <<2, 2, 38, "KB_3">>, <<2, 2, 37, "KB_4">>, <<2, 2, 46, "KB_5">>, <<2, 2, 54, "KB_6">>,
       <<2, 2, 61, "KB_7">>, <<2, 2, 62, "KB_8">>, <<2, 2, 70, "KB_9">>, <<2, 2, 69, "KB_0">>,
       <<2, 2, 78, "KB_HYPHEN">>, <<2, 2, 85, "KB_EQUALS">>, <<2, 2, 102, "KB_BACKSPACE">>,
       <<2, 2, 13, "KB_TAB">>, <<2, 2, 21, "KB_Q">>, <<2, 2, 29, "KB_W">>, <<2, 2, 36, "KB_E">>,
       <<2, 2, 45, "KB_R">>, <<2, 2, 45, "KB_T">>, <<2, 2, 53, "KB_Y">>, <<2, 2, 60, "KB_U">>,
       <<2, 2, 67, "KB_I">>, <<2, 2, 68, "KB_O">>, <<2, 2, 77, "KB_P">>,
       <<2, 2, 84, "KB_LBRACKET">>, <<2, 2, 91, "KB_RBRACKET">>, <<2, 2, 93, "KB_BACKSLASH">>,
       <<2, 2, 88, "KB_CAPS">>, <<2, 2, 28, "KB_A">>, <<2, 2, 27, "KB_S">>, <<2, 2, 35, "KB_D">>,
       <<2, 2, 43, "KB_F">>, <<2, 2, 52, "KB_G">>, <<2, 2, 51, "KB_H">>, <<2, 2, 59, "KB_J">>,
       <<2, 2, 66, "KB_K">>, <<2, 2, 75, "KB_L">>, <<2, 2, 76, "KB_SEMI">>,
       <<2, 2, 82, "KB_QUOTE">>, <<2, 2, 90, "KB_RET">>, <<2, 2, 136, "KB_LSHIFT">>,
       <<2, 2, 26, "KB_Z">>, <<2, 2, 34, "KB_X">>, <<2, 2, 33, "KB_C">>, <<2, 2, 42, "KB_V">>,
       <<2, 2, 50, "KB_B">>, <<2, 2, 49, "KB_N">>, <<2, 2, 58, "KB_M">>,
       <<2, 2, 65, "KB_COMMA">>, <<2, 2, 73, "KB_PERIOD">>, <<2, 2, 74, "KB_FWDSLASH">>,
       <<2, 2, 137, "KB_RSHIFT">>, <<2, 2, 140, "KB_LCTL">>, <<2, 2, 130, "KB_META">>,
       <<2, 2, 186, "KB_LALT">>, <<2, 2, 41, "KB_SPACE">>, <<2, 2, 139, "KB_RALT">>,
       <<2, 2, 132, "KB_MENU">>, <<2, 2, 141, "KB_RCTL">>, <<2, 2, 195, "KB_PRNTSCN">>,
       <<2, 2, 126, "KB_SCRLCK">>, <<2, 2, 145, "KB_PAUSE">>, <<2, 2, 194, "KB_INS">>,
       <<2, 2, 148, "KB_HOME">>, <<2, 2, 150, "KB_PGUP">>, <<2, 2, 192, "KB_DEL">>,
       <<2, 2, 149, "KB_END">>, <<2, 2, 151, "KB_PGDWN">>, <<2, 2, 153, "KB_UP_ARROW">>,
       <<2, 2, 152, "KB_DOWN_ARROW">>, <<2, 2, 145, "KB_LEFT_ARROW">>,
       <<2, 2, 155, "KB_RIGHT_ARROW">>, <<2, 2, 119, "NUMPAD_LOCK">>,
       <<2, 2, 144, "NUMPAD_FWDSLASH">>, <<2, 2, 124, "NUMPAD_ASTERISK">>,
       <<2, 2, 123, "NUMPAD_HYPHEN">>, <<2, 2, 112, "NUMPAD_0">>, <<2, 2, 105, "NUMPAD_1">>,
       <<2, 2, 114, "NUMPAD_2">>, <<2, 2, 122, "NUMPAD_3">>, <<2, 2, 107, "NUMPAD_4">>,
       <<2, 2, 115, "NUMPAD_5">>, <<2, 2, 116, "NUMPAD_6">>, <<2, 2, 108, "NUMPAD_7">>,
       <<2, 2, 117, "NUMPAD_8">>, <<2, 2, 125, "NUMPAD_9">>, <<2, 2, 121, "NUMPAD_PLUS">>,
       <<2, 2, 129, "NUMPAD_ENTER">>, <<2, 2, 113, "NUMPAD_PERIOD">>,
       <<3, 4, 1, "MOUSE_LCLICK">>, <<3, 4, 2, "MOUSE_RCLICK">>, <<3, 4, 3, "MOUSE_MCLICK">>,
       <<3, 4, 4, "MOUSE_WHEEL_UP">>, <<3, 4, 5, "MOUSE_WHEEL_DOWN">>,
       <<5, 3, 22, "MEDIA_SCREENSHOT">>, <<5, 3, 25, "MEDIA_SHOW_KEYBOARD">>,
       <<5, 3, 28, "MEDIA_SHOW_DESKTOP">>, <<5, 3, 30, "MEDIA_START_RECORDING">>,
       <<5, 3, 1, "MEDIA_MIC_OFF">>, <<5, 3, 2, "MEDIA_VOL_DOWN">>, <<5, 3, 3, "MEDIA_VOL_UP">> >>

\* The CODE_TO_STR_IF chain of __btn_map_to_string, in source order:
\* <<value of btn_block[0], index read, code compared, label macro>>.
CodeToStrTable ==
    << <<1, 1, 1, "PAD_A">>, <<1, 1, 2, "PAD_B">>, <<1, 1, 3, "PAD_X">>, <<1, 1, 4, "PAD_Y">>,
       <<1, 1, 5, "PAD_LB">>, <<1, 1, 6, "PAD_RB">>, <<1, 1, 7, "PAD_LS">>,
       <<1, 1, 8, "PAD_RS">>, <<1, 1, 9, "PAD_DPAD_UP">>, <<1, 1, 10, "PAD_DPAD_DOWN">>,
       <<1, 1, 11, "PAD_DPAD_LEFT">>, <<1, 1, 12, "PAD_DPAD_RIGHT">>, <<1, 1, 17, "PAD_VIEW">>,
       <<1, 1, 18, "PAD_MENU">>, <<1, 1, 19, "PAD_XBOX">>, <<2, 2, 143, "KB_M1">>,
       <<2, 2, 142, "KB_M2">>, <<2, 2, 118, "KB_ESC">>, <<2, 2, 80, "KB_F1">>,
       <<2, 2, 96, "KB_F2">>, <<2, 2, 64, "KB_F3">>, <<2, 2, 12, "KB_F4">>, <<2, 2, 3, "KB_F5">>,
       <<2, 2, 11, "KB_F6">>, <<2, 2, 128, "KB_F7">>, <<2, 2, 10, "KB_F8">>,
       <<2, 2, 1, "KB_F9">>, <<2, 2, 9, "KB_F10">>, <<2, 2, 120, "KB_F11">>,
       <<2, 2, 7, "KB_F12">>, <<2, 2, 16, "KB_F14">>, <<2, 2, 24, "KB_F15">>,
       <<2, 2, 14, "KB_BACKTICK">>, <<2, 2, 22, "KB_1">>, <<2, 2, 30, "KB_2">>,
       <<2, 2, 38, "KB_3">>, <<2, 2, 37, "KB_4">>, <<2, 2, 46, "KB_5">>, <<2, 2, 54, "KB_6">>,
       <<2, 2, 61, "KB_7">>, <<2, 2, 62, "KB_8">>, <<2, 2, 70, "KB_9">>, <<2, 2, 69, "KB_0">>,
       <<2, 2, 78, "KB_HYPHEN">>, <<2, 2, 85, "KB_EQUALS">>, <<2, 2, 102, "KB_BACKSPACE">>,
       <<2, 2, 13, "KB_TAB">>, <<2, 2, 21, "KB_Q">>, <<2, 2, 29, "KB_W">>, <<2, 2, 36, "KB_E">>,
       <<2, 2, 45, "KB_R">>, <<2, 2, 45, "KB_T">>, <<2, 2, 53, "KB_Y">>, <<2, 2, 60, "KB_U">>,
       <<2, 2, 67, "KB_I">>, <<2, 2, 68, "KB_O">>, <<2, 2, 77, "KB_P">>,
       <<2, 2, 84, "KB_LBRACKET">>, <<2, 2, 91, "KB_RBRACKET">>, <<2, 2, 93, "KB_BACKSLASH">>,
       <<2, 2, 88, "KB_CAPS">>, <<2, 2, 28, "KB_A">>, <<2, 2, 27, "KB_S">>, <<2, 2, 35, "KB_D">>,
       <<2, 2, 43, "KB_F">>, <<2, 2, 52, "KB_G">>, <<2, 2, 51, "KB_H">>, <<2, 2, 59, "KB_J">>,
       <<2, 2, 66, "KB_K">>, <<2, 2, 75, "KB_L">>, <<2, 2, 76, "KB_SEMI">>,
       <<2, 2, 82, "KB_QUOTE">>, <<2, 2, 90, "KB_RET">>, <<2, 2, 136, "KB_LSHIFT">>,
       <<2, 2, 26, "KB_Z">>, <<2, 2, 34, "KB_X">>, <<2, 2, 33, "KB_C">>, <<2, 2, 42, "KB_V">>,
       <<2, 2, 50, "KB_B">>, <<2, 2, 49, "KB_N">>, <<2, 2, 58, "KB_M">>,
       <<2, 2, 65, "KB_COMMA">>, <<2, 2, 73, "KB_PERIOD">>, <<2, 2, 74, "KB_FWDSLASH">>,
       <<2, 2, 137, "KB_RSHIFT">>, <<2, 2, 140, "KB_LCTL">>, <<2, 2, 130, "KB_META">>,
       <<2, 2, 186, "KB_LALT">>, <<2, 2, 41, "KB_SPACE">>, <<2, 2, 139, "KB_RALT">>,
       <<2, 2, 132, "KB_MENU">>, <<2, 2, 141, "KB_RCTL">>, <<2, 2, 195, "KB_PRNTSCN">>,
       <<2, 2, 126, "KB_SCRLCK">>, <<2, 2, 145, "KB_PAUSE">>, <<2, 2, 194, "KB_INS">>,
       <<2, 2, 148, "KB_HOME">>, <<2, 2, 150, "KB_PGUP">>, <<2, 2, 192, "KB_DEL">>,
       <<2, 2, 149, "KB_END">>, <<2, 2, 151, "KB_PGDWN">>, <<2, 2, 153, "KB_UP_ARROW">>,
       <<2, 2, 152, "KB_DOWN_ARROW">>, <<2, 2, 145, "KB_LEFT_ARROW">>,
       <<2, 2, 155, "KB_RIGHT_ARROW">>, <<2, 2, 119, "NUMPAD_LOCK">>,
       <<2, 2, 144, "NUMPAD_FWDSLASH">>, <<2, 2, 124, "NUMPAD_ASTERISK">>,
       <<2, 2, 123, "NUMPAD_HYPHEN">>, <<2, 2, 112, "NUMPAD_0">>, <<2, 2, 105, "NUMPAD_1">>,
       <<2, 2, 114, "NUMPAD_2">>, <<2, 2, 122, "NUMPAD_3">>, <<2, 2, 107, "NUMPAD_4">>,
       <<2, 2, 115, "NUMPAD_5">>, <<2, 2, 116, "NUMPAD_6">>, <<2, 2, 108, "NUMPAD_7">>,
       <<2, 2, 117, "NUMPAD_8">>, <<2, 2, 125, "NUMPAD_9">>, <<2, 2, 121, "NUMPAD_PLUS">>,
       <<2, 2, 129, "NUMPAD_ENTER">>, <<2, 2, 113, "NUMPAD_PERIOD">>,
       <<3, 4, 1, "MOUSE_LCLICK">>, <<3, 4, 2, "MOUSE_RCLICK">>, <<3, 4, 3, "MOUSE_MCLICK">>,
       <<3, 4, 4, "MOUSE_WHEEL_UP">>, <<3, 4, 5, "MOUSE_WHEEL_DOWN">>,
       <<5, 3, 22, "MEDIA_SCREENSHOT">>, <<5, 3, 25, "MEDIA_SHOW_KEYBOARD">>,
       <<5, 3, 28, "MEDIA_SHOW_DESKTOP">>, <<5, 3, 30, "MEDIA_START_RECORDING">>,
       <<5, 3, 1, "MEDIA_MIC_OFF">>, <<5, 3, 2, "MEDIA_VOL_DOWN">>, <<5, 3, 3, "MEDIA_VOL_UP">> >>

\* A text written to an attribute is a sequence of tokens: a label, " " or "\n".
\* strlen(buf): the characters of its tokens
RECURSIVE Strlen(_)
Strlen(buf) == IF buf = <<>> THEN 0 ELSE Len(Head(buf)) + Strlen(Tail(buf))

\* strcpy(buf_copy, buf) into char buf_copy[32] writes strlen(buf) + 1 bytes: past
\* the array when the text has 32 characters or more and is not a clearing text
StrcpyOverflows(buf) ==
    /\ ~(buf = <<" ">> \/ buf = <<"\n">> \/ buf = <<>>)
    /\ Strlen(buf) + 1 > BUF_COPY_LEN

\* buf_copy[strcspn(buf_copy, "\n")] = 0: the text up to its first newline
RECURSIVE StripNewline(_)
StripNewline(buf) ==
    IF buf = <<>> \/ Head(buf) = "\n" THEN <<>>
    ELSE <<Head(buf)>> \o StripNewline(Tail(buf))

\* One group of the chain: out[0] = page, then the first row of that page whose
\* label equals buf_copy writes its code.
StrToCodeGroup(out, page, buf_copy) ==
    LET write(first) ==
            [out EXCEPT ![0] = page,
                        ![StrToCodeTable[first][2]] = StrToCodeTable[first][3]]
        group(hits) ==
            IF hits = {} THEN [out EXCEPT ![0] = page]
            ELSE write(CHOOSE k \in hits : \A j \in hits : k <= j)
    IN  group({k \in 1..Len(StrToCodeTable) :
                  /\ StrToCodeTable[k][1] = page
                  /\ buf_copy = <<StrToCodeTable[k][4]>>})

\* __string_to_key_code without "memcpy(out, save_buf, out_len)" for an unknown text
__string_to_key_code_norestore(buf, out) ==
    LET buf_copy == StripNewline(buf)
        success(bytes) == [ret |-> 0, out |-> bytes]
        media_group(media) ==
            IF media[3] # 0 THEN success(media) 
            ELSE [ret |-> -Errno.EINVAL, out |-> media]
        mouse_group(mouse) ==
            IF mouse[4] # 0 THEN success(mouse)
            ELSE media_group(StrToCodeGroup(mouse, 5, buf_copy))
        kbd_group(kbd) ==
            IF kbd[2] # 0 THEN success(kbd)
            ELSE mouse_group(StrToCodeGroup(kbd, 3, buf_copy))
        xpad_group(xpad) ==
            IF xpad[1] # 0 THEN success(xpad)
            ELSE kbd_group(StrToCodeGroup(xpad, 2, buf_copy))
        cleared(bytes) ==
            IF buf = <<" ">> \/ buf = <<"\n">> \/ buf = <<>> THEN success(bytes)
            ELSE xpad_group(StrToCodeGroup(bytes, 1, buf_copy))
    IN  cleared(Kzalloc(BTN_CODE_LEN))

\* __string_to_key_code without "memset(out, 0, out_len)"
__string_to_key_code_noclear(buf, out) ==
    LET buf_copy == StripNewline(buf)
        failure == [ret |-> -Errno.EINVAL, out |-> out]
        success(bytes) == [ret |-> 0, out |-> bytes]
        media_group(media) ==
            IF media[3] # 0 THEN success(media) ELSE failure
        mouse_group(mouse) ==
            IF mouse[4] # 0 THEN success(mouse)
            ELSE media_group(StrToCodeGroup(mouse, 5, buf_copy))
        kbd_group(kbd) ==
            IF kbd[2] # 0 THEN success(kbd)
            ELSE mouse_group(StrToCodeGroup(kbd, 3, buf_copy))
        xpad_group(xpad) ==
            IF xpad[1] # 0 THEN success(xpad)
            ELSE kbd_group(StrToCodeGroup(xpad, 2, buf_copy))
        cleared(bytes) ==
            IF buf = <<" ">> \/ buf = <<"\n">> \/ buf = <<>> THEN success(bytes)
            ELSE xpad_group(StrToCodeGroup(bytes, 1, buf_copy))
    IN  cleared(out)

\* __string_to_key_code with the keyboard group tested at out[1] as the gamepad
\* group is
__string_to_key_code_kbd1(buf, out) ==
    LET buf_copy == StripNewline(buf)
        failure == [ret |-> -Errno.EINVAL, out |-> out]
        success(bytes) == [ret |-> 0, out |-> bytes]
        media_group(media) ==
            IF media[3] # 0 THEN success(media) ELSE failure
        mouse_group(mouse) ==
            IF mouse[4] # 0 THEN success(mouse)
            ELSE media_group(StrToCodeGroup(mouse, 5, buf_copy))
        kbd_group(kbd) ==
            IF kbd[1] # 0 THEN success(kbd)
            ELSE mouse_group(StrToCodeGroup(kbd, 3, buf_copy))
        xpad_group(xpad) ==
            IF xpad[1] # 0 THEN success(xpad)
            ELSE kbd_group(StrToCodeGroup(xpad, 2, buf_copy))
        cleared(bytes) ==
            IF buf = <<" ">> \/ buf = <<"\n">> \/ buf = <<>> THEN success(bytes)
            ELSE xpad_group(StrToCodeGroup(bytes, 1, buf_copy))
    IN  cleared(Kzalloc(BTN_CODE_LEN))

\* __string_to_key_code(buf, out, BTN_CODE_LEN): the return value and the bytes left
\* in out; each group is written and tested in turn, on the bytes the group before
\* it left
__string_to_key_code(buf, out) ==
    LET buf_copy == StripNewline(buf)
        failure == [ret |-> -Errno.EINVAL, out |-> out]
        success(bytes) == [ret |-> 0, out |-> bytes]
        media_group(media) ==
            IF media[3] # 0 THEN success(media) ELSE failure
        mouse_group(mouse) ==
            IF mouse[4] # 0 THEN success(mouse)
            ELSE media_group(StrToCodeGroup(mouse, 5, buf_copy))
        kbd_group(kbd) ==
            IF kbd[2] # 0 THEN success(kbd)
            ELSE mouse_group(StrToCodeGroup(kbd, 3, buf_copy))
        xpad_group(xpad) ==
            IF xpad[1] # 0 THEN success(xpad)
            ELSE kbd_group(StrToCodeGroup(xpad, 2, buf_copy))
        cleared(bytes) ==
            IF buf = <<" ">> \/ buf = <<"\n">> \/ buf = <<>> THEN success(bytes)
            ELSE xpad_group(StrToCodeGroup(bytes, 1, buf_copy))
    IN  cleared(Kzalloc(BTN_CODE_LEN))

\* offset of a sub-slot in a pair's mapping block
SubSlotOffs(side, secondary) ==
    LET offs == IF side # 0 THEN MAPPING_BLOCK_LEN \div 2 ELSE 0
    IN  IF secondary THEN offs + BTN_CODE_LEN ELSE offs

\* the BTN_CODE_LEN bytes of a mapping block starting at offs
SubSlot(block, offs) == [i \in 0..(BTN_CODE_LEN - 1) |-> block[offs + i]]

\* __btn_map_to_string: the label of a stored sub-slot, "" when none matches
__btn_map_to_string(ally_cfg, pair, side, secondary) ==
    LET btn_block ==
            SubSlot(ally_cfg.key_mapping[ally_cfg.mode - 1][pair - 1],
                    SubSlotOffs(side, secondary))
        hits == {k \in 1..Len(CodeToStrTable) :
                    /\ btn_block[0] = CodeToStrTable[k][1]
                    /\ btn_block[CodeToStrTable[k][2]] = CodeToStrTable[k][3]}
        first == CHOOSE k \in hits : \A j \in hits : k <= j
    IN  IF hits = {} THEN "" ELSE CodeToStrTable[first][4]

\* __gamepad_mapping_store: the return value and the store after it
__gamepad_mapping_store(ally_cfg, buf, pair, side, secondary) ==
    LET offs == SubSlotOffs(side, secondary)
        block == ally_cfg.key_mapping[ally_cfg.mode - 1][pair - 1]
        stored(r) ==
            [ret |-> r.ret,
             cfg |-> [ally_cfg EXCEPT !.key_mapping[ally_cfg.mode - 1][pair - 1] =
                                           Memcpy(block, offs, r.out, BTN_CODE_LEN)]]
    IN  stored(__string_to_key_code(buf, SubSlot(block, offs)))

\* ---------------------------------------------------------- default tables
\* A mapping block with the two primary sub-slots bound and the secondaries unbound.
DefBlock(left, right) ==
    Memcpy(Memcpy(Kzalloc(MAPPING_BLOCK_LEN), 0, left, BTN_CODE_LEN),
           MAPPING_BLOCK_LEN \div 2, right, BTN_CODE_LEN)

DefSlot(page, idx, code) == [Kzalloc(BTN_CODE_LEN) EXCEPT ![0] = page, ![idx] = code]

\* XPAD_DEF1..XPAD_DEF9 (hid-asus-ally-cfg.h): each pair's own two gamepad buttons;
\* the symbol table has no symbol for the triggers, whose pair is left unbound
XPAD_DEF ==
    [p \in Pairs |->
        CASE p = btn_pair_dpad_u_d -> DefBlock(DefSlot(1, 1, 9), DefSlot(1, 1, 10))
          [] p = btn_pair_dpad_l_r -> DefBlock(DefSlot(1, 1, 11), DefSlot(1, 1, 12))
          [] p = btn_pair_ls_rs -> DefBlock(DefSlot(1, 1, 7), DefSlot(1, 1, 8))
          [] p = btn_pair_lb_rb -> DefBlock(DefSlot(1, 1, 5), DefSlot(1, 1, 6))
          [] p = btn_pair_a_b -> DefBlock(DefSlot(1, 1, 1), DefSlot(1, 1, 2))
          [] p = btn_pair_x_y -> DefBlock(DefSlot(1, 1, 3), DefSlot(1, 1, 4))
          [] p = btn_pair_view_menu -> DefBlock(DefSlot(1, 1, 17), DefSlot(1, 1, 18))
          [] p = btn_pair_m1_m2 -> DefBlock(DefSlot(2, 2, 142), DefSlot(2, 2, 143))
          [] p = btn_pair_lt_rt -> Kzalloc(MAPPING_BLOCK_LEN)]

\* WASD_DEF1..WASD_DEF9 (hid-asus-ally-cfg.h): keyboard and mouse bindings
WASD_DEF ==
    [p \in Pairs |->
        CASE p = btn_pair_dpad_u_d -> DefBlock(DefSlot(2, 2, 29), DefSlot(2, 2, 27))
          [] p = btn_pair_dpad_l_r -> DefBlock(DefSlot(2, 2, 28), DefSlot(2, 2, 35))
          [] p = btn_pair_ls_rs -> DefBlock(DefSlot(2, 2, 136), DefSlot(3, 4, 3))
          [] p = btn_pair_lb_rb -> DefBlock(DefSlot(2, 2, 13), DefSlot(2, 2, 41))
          [] p = btn_pair_a_b -> DefBlock(DefSlot(2, 2, 90), DefSlot(2, 2, 118))
          [] p = btn_pair_x_y -> DefBlock(DefSlot(2, 2, 45), DefSlot(2, 2, 36))
          [] p = btn_pair_view_menu -> DefBlock(DefSlot(2, 2, 13), DefSlot(2, 2, 118))
          [] p = btn_pair_m1_m2 -> DefBlock(DefSlot(2, 2, 142), DefSlot(2, 2, 143))
          [] p = btn_pair_lt_rt -> DefBlock(DefSlot(3, 4, 2), DefSlot(3, 4, 1))]

__gamepad_mapping_xpad_default(ally_cfg) ==
    [ally_cfg EXCEPT !.key_mapping[0] = [p \in 0..(btn_pair_lt_rt - 1) |-> XPAD_DEF[p + 1]]]

__gamepad_mapping_wasd_default(ally_cfg) ==
    [ally_cfg EXCEPT !.key_mapping[1] = [p \in 0..(btn_pair_lt_rt - 1) |-> WASD_DEF[p + 1]]]

\* -------------------------------------------------------------- the store
\* ally_gamepad_cfg_create: the store as devm_kzalloc and the assignments that
\* follow leave it, before the first packet is sent
CfgCreate ==
    LET zeroed ==
            [mode |-> 0,
             deadzones |-> [m \in 0..(xpad_mode_mouse - 1) |-> [g \in 0..1 |-> Kzalloc(4)]],
             vibration_intensity |-> [m \in 0..(xpad_mode_mouse - 1) |-> Kzalloc(2)],
             response_curve |->
                 [m \in 0..(xpad_mode_mouse - 1) |-> [s \in 0..1 |-> Kzalloc(8)]],
             anti_deadzones |-> [m \in 0..(xpad_mode_mouse - 1) |-> Kzalloc(2)],
             key_mapping |->
                 [m \in 0..(xpad_mode_mouse - 1) |->
                     [p \in 0..(btn_pair_lt_rt - 1) |-> Kzalloc(MAPPING_BLOCK_LEN)]],
             turbo_btns |-> [m \in 0..(xpad_mode_mouse - 1) |-> Kzalloc(TURBO_BLOCK_LEN)],
             js_calibrations |-> [side \in 0..1 |-> Kzalloc(6)],
             tr_calibrations |-> [side \in 0..1 |-> Kzalloc(2)]]
        curve == Assign(Kzalloc(8), 0, <<20, 20, 40, 40, 60, 60, 80, 80>>)
        filled ==
            [zeroed EXCEPT
                !.mode = xpad_mode_game,
                !.deadzones =
                    [m \in 0..(xpad_mode_mouse - 1) |->
                        [g \in 0..1 |-> [Kzalloc(4) EXCEPT ![1] = 64, ![3] = 64]]],
                !.response_curve =
                    [m \in 0..(xpad_mode_mouse - 1) |-> [s \in 0..1 |-> curve]],
                !.vibration_intensity =
                    [m \in 0..(xpad_mode_mouse - 1) |-> [s \in 0..1 |-> 64]]]
        defaults == __gamepad_mapping_wasd_default(__gamepad_mapping_xpad_default(filled))
        m2 == __gamepad_mapping_store(defaults, <<"PAD_XBOX">>, btn_pair_m1_m2,
                                      btn_pair_side_left, FALSE).cfg
    IN  __gamepad_mapping_store(m2, <<"KB_M1">>, btn_pair_m1_m2,
                                btn_pair_side_right, FALSE).cfg

\* --------------------------------------------------------- packet encoders
\* __btn_pair_to_pkt copying the block to out[6]
__btn_pair_to_pkt_out6(ally_cfg, pair) ==
    Memcpy(Assign(Kzalloc(FEATURE_ROG_ALLY_REPORT_SIZE), 0,
                  <<FEATURE_ROG_ALLY_REPORT_ID, FEATURE_ROG_ALLY_CODE_PAGE,
                    xpad_cmd_set_mapping, pair, xpad_cmd_len_mapping>>),
           6, ally_cfg.key_mapping[ally_cfg.mode - 1][pair - 1], MAPPING_BLOCK_LEN)

\* __btn_pair_to_pkt on a zeroed report
__btn_pair_to_pkt(ally_cfg, pair) ==
    Memcpy(Assign(Kzalloc(FEATURE_ROG_ALLY_REPORT_SIZE), 0,
                  <<FEATURE_ROG_ALLY_REPORT_ID, FEATURE_ROG_ALLY_CODE_PAGE,
                    xpad_cmd_set_mapping, pair, xpad_cmd_len_mapping>>),
           5, ally_cfg.key_mapping[ally_cfg.mode - 1][pair - 1], MAPPING_BLOCK_LEN)

\* the report __gamepad_set_mode builds
SetModePkt(val) ==
    Assign(Kzalloc(FEATURE_ROG_ALLY_REPORT_SIZE), 0,
           <<FEATURE_ROG_ALLY_REPORT_ID, FEATURE_ROG_ALLY_CODE_PAGE,
             xpad_cmd_set_mode, xpad_cmd_len_mode, U8(val)>>)

\* the report __gamepad_write_vibe_intensity_to_mcu builds
VibeIntensityPkt(ally_cfg) ==
    Assign(Kzalloc(FEATURE_ROG_ALLY_REPORT_SIZE), 0,
           <<FEATURE_ROG_ALLY_REPORT_ID, FEATURE_ROG_ALLY_CODE_PAGE,
             xpad_cmd_set_vibe_intensity, xpad_cmd_len_vibe_intensity,
             ally_cfg.vibration_intensity[ally_cfg.mode - 1][btn_pair_side_left],
             ally_cfg.vibration_intensity[ally_cfg.mode - 1][btn_pair_side_right]>>)

\* the first report __gamepad_set_deadzones builds (joysticks)
JsDeadzonePkt(ally_cfg) ==
    Assign(Kzalloc(FEATURE_ROG_ALLY_REPORT_SIZE), 0,
           <<FEATURE_ROG_ALLY_REPORT_ID, FEATURE_ROG_ALLY_CODE_PAGE,
             xpad_cmd_set_js_dz, xpad_cmd_len_deadzone,
             ally_cfg.deadzones[ally_cfg.mode - 1][0][0],
             ally_cfg.deadzones[ally_cfg.mode - 1][0][1],
             ally_cfg.deadzones[ally_cfg.mode - 1][0][2],
             ally_cfg.deadzones[ally_cfg.mode - 1][0][3]>>)

\* the second report of __gamepad_set_deadzones (triggers): the same buffer with
\* the command byte and bytes 4..7 overwritten
TrDeadzonePkt(ally_cfg) ==
    Assign([JsDeadzonePkt(ally_cfg) EXCEPT ![2] = xpad_cmd_set_tr_dz], 4,
           <<ally_cfg.deadzones[ally_cfg.mode - 1][1][0],
             ally_cfg.deadzones[ally_cfg.mode - 1][1][1],
             ally_cfg.deadzones[ally_cfg.mode - 1][1][2],
             ally_cfg.deadzones[ally_cfg.mode - 1][1][3]>>)

\* the report __gamepad_write_js_ADZ_to_mcu builds
AntiDeadzonePkt(ally_cfg) ==
    Assign(Kzalloc(FEATURE_ROG_ALLY_REPORT_SIZE), 0,
           <<FEATURE_ROG_ALLY_REPORT_ID, FEATURE_ROG_ALLY_CODE_PAGE,
             xpad_cmd_set_adz, xpad_cmd_len_adz,
             ally_cfg.anti_deadzones[ally_cfg.mode - 1][btn_pair_side_left],
             ally_cfg.anti_deadzones[ally_cfg.mode - 1][btn_pair_side_right]>>)

\* __gamepad_write_response_curves_to_mcu: the buffer after the left curve is
\* copied in (side byte 0x01)
ResponseCurveLeftBuf(ally_cfg) ==
    Memcpy(Assign(Kzalloc(FEATURE_ROG_ALLY_REPORT_SIZE), 0,
                  <<FEATURE_ROG_ALLY_REPORT_ID, FEATURE_ROG_ALLY_CODE_PAGE,
                    xpad_cmd_set_response_curve, xpad_cmd_len_response_curve, 1>>),
           5, ally_cfg.response_curve[ally_cfg.mode - 1][btn_pair_side_left], 8)

\* the same buffer after the right curve is copied over it (side byte 0x02)
ResponseCurveRightBuf(ally_cfg) ==
    Memcpy([ResponseCurveLeftBuf(ally_cfg) EXCEPT ![4] = 2],
           5, ally_cfg.response_curve[ally_cfg.mode - 1][btn_pair_side_right], 8)

\* the turbo report built at the end of __gamepad_write_all_to_mcu
TurboPkt(ally_cfg) ==
    Memcpy(Assign(Kzalloc(FEATURE_ROG_ALLY_REPORT_SIZE), 0,
                  <<FEATURE_ROG_ALLY_REPORT_ID, FEATURE_ROG_ALLY_CODE_PAGE,
                    xpad_cmd_set_turbo, xpad_cmd_len_turbo>>),
           4, ally_cfg.turbo_btns[ally_cfg.mode - 1], TURBO_BLOCK_LEN)

\* the report the retry loop of __gamepad_check_ready sends
CheckReadyPkt ==
    Assign(Kzalloc(FEATURE_ROG_ALLY_REPORT_SIZE), 0,
           <<FEATURE_ROG_ALLY_REPORT_ID, FEATURE_ROG_ALLY_CODE_PAGE,
             xpad_cmd_check_ready, 1>>)

\* --------------------------------------------------------------- transport
\* asus_dev_set_report returns hid_hw_raw_request's result: the report size when
\* the report is accepted, a negative errno otherwise.
SendResults ==
    {FEATURE_ROG_ALLY_REPORT_SIZE} \cup (IF nfail < MaxFail THEN {-Errno.EIO} ELSE {})

SetReport(buf, r) == [req |-> "set_report", buf |-> buf, ret |-> r]
GetReport(buf, r) == [req |-> "get_report", buf |-> buf, ret |-> r]

\* __gamepad_check_ready as built: its first statement is "return 0", so it makes
\* no transport request
__gamepad_check_ready == [ret |-> 0, io |-> <<>>]

\* ret = __gamepad_check_ready(); if (ret < 0) return ret; (n times) and then
\* ret = asus_dev_set_report(buf): the requests made and the value returned
CheckedSend(n, buf, r) ==
    LET chk == __gamepad_check_ready
        RECURSIVE Io(_)
        Io(k) == IF k = 0 THEN <<>> ELSE Io(k - 1) \o chk.io
    IN  IF chk.ret < 0 THEN [io |-> chk.io, ret |-> chk.ret]
        ELSE [io |-> Io(n) \o <<SetReport(buf, r)>>, ret |-> r]

\* ------------------------------------------------------- handler threads
\* Thread 1 also runs device creation.  Under Spec the handlers run one at a time
\* (thread 1 only); under SpecConc two sysfs writers run handlers concurrently.
Threads == {1, 2}

Idle == [op |-> "none", pc |-> "idle", ret |-> 0, val |-> 0, count |-> 0, arg |-> <<>>]

\* the calls of __gamepad_write_all_to_mcu, in source order
WriteAllOrder ==
    <<"map_dpad_u_d", "map_dpad_l_r", "map_ls_rs", "map_lb_rb", "map_a_b", "map_x_y",
      "map_view_menu", "map_m1_m2", "map_lt_rt", "deadzones", "adz", "vibe", "rc",
      "turbo">>

\* the calls of __gamepad_write_all_to_mcu whose return value is assigned to ret
RetAssigned ==
    {"map_dpad_u_d", "map_dpad_l_r", "map_ls_rs", "map_lb_rb", "map_a_b", "map_x_y",
     "map_view_menu", "map_m1_m2", "turbo"}

\* the pair each __gamepad_set_mapping call is made for
MapStepPair ==
    [map_dpad_u_d |-> btn_pair_dpad_u_d, map_dpad_l_r |-> btn_pair_dpad_l_r,
     map_ls_rs |-> btn_pair_ls_rs, map_lb_rb |-> btn_pair_lb_rb,
     map_a_b |-> btn_pair_a_b, map_x_y |-> btn_pair_x_y,
     map_view_menu |-> btn_pair_view_menu, map_m1_m2 |-> btn_pair_m1_m2,
     map_lt_rt |-> btn_pair_lt_rt, create_map |-> btn_pair_m1_m2]

PosOf(step) == CHOOSE i \in 1..Len(WriteAllOrder) : WriteAllOrder[i] = step

\* __gamepad_write_all_to_mcu returns R to its caller: btn_mapping_apply_store and
\* gamepad_mode_store (through __gamepad_set_mode) return R when negative and count
\* otherwise; ally_gamepad_cfg_create ignores it
WriteAllReturn(h, R) ==
    IF h.op = "create" THEN [h EXCEPT !.pc = "done", !.ret = 0]
    ELSE [h EXCEPT !.pc = "done", !.ret = IF R < 0 THEN R ELSE h.count]

\* __gamepad_write_all_to_mcu after the call at `step` returned r:
\*   ret = call(); if (ret < 0) return ret;     for the calls in RetAssigned
\*   call(); if (ret < 0) return ret;           for the others
\* and "return ret" after the turbo report
WriteAllAfter(h, step, r) ==
    LET ret == IF step \in RetAssigned THEN r ELSE h.ret
    IN  IF step = "turbo" \/ ret < 0 THEN WriteAllReturn(h, ret)
        ELSE [h EXCEPT !.pc = WriteAllOrder[PosOf(step) + 1], !.ret = ret]

\* what the caller of a sending function does with its return value r
AfterCall(h, step, r) ==
    IF h.op = "vibe_store"
        THEN [h EXCEPT !.pc = "done", !.ret = IF r < 0 THEN r ELSE h.count]
    ELSE IF step = "create_map" THEN [h EXCEPT !.pc = "set_mode"]
    ELSE WriteAllAfter(h, step, r)

\* __gamepad_set_mode returning 0 when its set-mode report was refused
AfterSetMode_swallows(h, r) ==
    IF r < 0 THEN [h EXCEPT !.pc = "done", !.ret = IF h.op = "create" THEN 0 ELSE h.count]
    ELSE [h EXCEPT !.pc = WriteAllOrder[1], !.ret = 0]

\* __gamepad_set_mode after its set-mode report returned r: a failure is returned
\* at once, otherwise __gamepad_write_all_to_mcu starts with ret = 0
AfterSetMode(h, r) ==
    IF r < 0 THEN [h EXCEPT !.pc = "done", !.ret = IF h.op = "create" THEN 0 ELSE r]
    ELSE [h EXCEPT !.pc = WriteAllOrder[1], !.ret = 0]

\* a sending function of thread t makes the requests of `res` and returns res.ret
Sends(t, step, res, after) ==
    /\ log' = [log EXCEPT ![t] = @ \o res.io]
    /\ nfail' = nfail + Cardinality({i \in 1..Len(res.io) : res.io[i].ret < 0})
    /\ th' = [th EXCEPT ![t] = after]
    /\ snap' = IF step = WriteAllOrder[1] THEN [snap EXCEPT ![t] = cfg] ELSE snap
    /\ UNCHANGED <<cfg, nops, hs, led, rog, reg, ally_x>>

\* __gamepad_set_mapping(hdev, ally_cfg, pair)
__gamepad_set_mapping(t) ==
    /\ th[t].pc \in DOMAIN MapStepPair
    /\ \E r \in SendResults :
        LET res == CheckedSend(1, __btn_pair_to_pkt(cfg, MapStepPair[th[t].pc]), r)
        IN  Sends(t, th[t].pc, res, AfterCall(th[t], th[t].pc, res.ret))

\* __gamepad_set_mode(hdev, ally_cfg, val) up to its set-mode report
__gamepad_set_mode(t) ==
    /\ th[t].pc = "set_mode"
    /\ \E r \in SendResults :
        LET res == CheckedSend(2, SetModePkt(th[t].val), r)
        IN  Sends(t, "set_mode", res, AfterSetMode(th[t], res.ret))

\* __gamepad_set_deadzones: the joystick report; on failure the function returns
__gamepad_set_deadzones_js(t) ==
    /\ th[t].pc = "deadzones"
    /\ \E r \in SendResults :
        LET res == CheckedSend(1, JsDeadzonePkt(cfg), r)
        IN  Sends(t, "deadzones", res,
                  IF res.ret < 0 THEN AfterCall(th[t], "deadzones", res.ret)
                  ELSE [th[t] EXCEPT !.pc = "deadzones_tr"])

\* __gamepad_set_deadzones: the trigger report, from the same buffer
__gamepad_set_deadzones_tr(t) ==
    /\ th[t].pc = "deadzones_tr"
    /\ \E r \in SendResults :
        Sends(t, "deadzones", [io |-> <<SetReport(TrDeadzonePkt(cfg), r)>>, ret |-> r],
              AfterCall(th[t], "deadzones", r))

\* __gamepad_write_js_ADZ_to_mcu
__gamepad_write_js_ADZ_to_mcu(t) ==
    /\ th[t].pc = "adz"
    /\ \E r \in SendResults :
        LET res == CheckedSend(2, AntiDeadzonePkt(cfg), r)
        IN  Sends(t, "adz", res, AfterCall(th[t], "adz", res.ret))

\* __gamepad_write_vibe_intensity_to_mcu
__gamepad_write_vibe_intensity_to_mcu(t) ==
    /\ th[t].pc = "vibe"
    /\ \E r \in SendResults :
        LET res == CheckedSend(2, VibeIntensityPkt(cfg), r)
        IN  Sends(t, "vibe", res, AfterCall(th[t], "vibe", res.ret))

\* __gamepad_write_response_curves_to_mcu: one asus_dev_set_report call, made after
\* the right curve has overwritten the left one in the buffer
__gamepad_write_response_curves_to_mcu(t) ==
    /\ th[t].pc = "rc"
    /\ \E r \in SendResults :
        LET res == CheckedSend(3, ResponseCurveRightBuf(cfg), r)
        IN  Sends(t, "rc", res, AfterCall(th[t], "rc", res.ret))

\* the tail of __gamepad_write_all_to_mcu: the turbo report
__gamepad_write_turbo(t) ==
    /\ th[t].pc = "turbo"
    /\ \E r \in SendResults :
        LET res == CheckedSend(1, TurboPkt(cfg), r)
        IN  Sends(t, "turbo", res, AfterCall(th[t], "turbo", res.ret))

\* ---------------------------------------------------------------- inputs
\* value of the count argument of a sysfs store
Counts == {3}

\* values written to gamepad_mode
ModeInputs == 0..4

\* <<pair, side, secondary, text>> written to a btn_mapping attribute
MappingInputs ==
    {<<btn_pair_a_b, btn_pair_side_left, FALSE, <<"KB_W">>>>,
     <<btn_pair_a_b, btn_pair_side_left, FALSE, <<" ">>>>,
     <<btn_pair_a_b, btn_pair_side_left, TRUE, <<"MOUSE_LCLICK", "\n">>>>,
     <<btn_pair_lt_rt, btn_pair_side_right, FALSE, <<"MEDIA_VOL_UP">>>>,
     <<btn_pair_lt_rt, btn_pair_side_right, FALSE, <<"bogus">>>>}

\* <<pair, side, value>> written to a turbo attribute
TurboInputs ==
    {<<btn_pair_a_b, btn_pair_side_left, 16>>, <<btn_pair_m1_m2, btn_pair_side_right, 5>>,
     <<btn_pair_a_b, btn_pair_side_left, 17>>, <<btn_pair_x_y, btn_pair_side_right, -1>>,
     <<btn_pair_lt_rt, btn_pair_side_left, 3>>, <<btn_pair_lt_rt, btn_pair_side_right, 4>>}

\* <<axis, inner, outer>> written to a deadzone attribute
DeadzoneInputs ==
    {<<xpad_axis_xy_left, 10, 20>>, <<xpad_axis_z_right, 5, 6>>,
     <<xpad_axis_xy_right, 20, 10>>, <<xpad_axis_z_left, 65, 70>>,
     <<xpad_axis_xy_left, -1, 5>>}

\* <<axis, inner, outer>> written by two writers at once
TornInputs ==
    {<<xpad_axis_xy_left, 10, 20>>, <<xpad_axis_xy_left, 30, 40>>,
     <<xpad_axis_z_right, 5, 6>>, <<xpad_axis_xy_right, 20, 10>>}

\* <<side, value>> written to an anti_deadzone attribute
AntiDeadzoneInputs ==
    {<<btn_pair_side_left, 32>>, <<btn_pair_side_right, 7>>,
     <<btn_pair_side_left, 33>>, <<btn_pair_side_right, -1>>}

\* <<left, right>> written to vibration_intensity
VibrationInputs == {<<10, 20>>, <<70, 10>>, <<0, 65>>, <<-1, 10>>}

\* <<side, point, move, response>> written to an rc_point attribute
ResponseCurveInputs ==
    {<<btn_pair_side_left, 1, 30, 31>>, <<btn_pair_side_right, 4, 64, 0>>,
     <<btn_pair_side_left, 2, 65, 1>>, <<btn_pair_side_right, 3, 1, -1>>}

\* --------------------------------------------------------------- handlers
\* a sysfs store may be entered by a thread that runs no handler, once
\* ally_gamepad_cfg_create has sent its packets (sysfs_create_groups follows them)
CanBegin(t) ==
    /\ th[t].pc \in {"idle", "done"}
    /\ th[1].op = "create" => th[1].pc = "done"
    /\ nops < MaxOps

\* a handler of thread t, written the input arg, makes no transport request and
\* returns ret
Returns(t, op, ret, count, arg) ==
    /\ th' = [th EXCEPT ![t] = [op |-> op, pc |-> "done", ret |-> ret, val |-> 0,
                                count |-> count, arg |-> arg]]
    /\ log' = [log EXCEPT ![t] = <<>>]
    /\ nops' = nops + 1
    /\ UNCHANGED <<snap, nfail, hs, led, rog, reg, ally_x>>

\* a handler of thread t, written the input arg, goes on to send reports,
\* starting at pc
Proceeds(t, op, pc, val, count, arg) ==
    /\ th' = [th EXCEPT ![t] = [op |-> op, pc |-> pc, ret |-> 0, val |-> val,
                                count |-> count, arg |-> arg]]
    /\ log' = [log EXCEPT ![t] = <<>>]
    /\ nops' = nops + 1
    /\ UNCHANGED <<nfail, hs, led, rog, reg, ally_x>>

\* btn_mapping_apply_store switching between the game and the desktop profile
\* before its push
btn_mapping_apply_store_switches(t) ==
    /\ CanBegin(t)
    /\ \E count \in Counts : Proceeds(t, "apply", WriteAllOrder[1], 0, count, <<>>)
    /\ cfg' = [cfg EXCEPT !.mode = IF @ = xpad_mode_game THEN xpad_mode_wasd
                                    ELSE xpad_mode_game]
    /\ UNCHANGED snap

\* btn_mapping_apply_store: the full push of the active mode's profile
btn_mapping_apply_store(t) ==
    /\ CanBegin(t)
    /\ \E count \in Counts : Proceeds(t, "apply", WriteAllOrder[1], 0, count, <<>>)
    /\ UNCHANGED <<cfg, snap>>

\* gamepad_mode_store without its assignment to ally_cfg->mode
ModeAssign_skip(ally_cfg, val) == ally_cfg

\* gamepad_mode_store: "ally_cfg->mode = val" of a valid val
ModeAssign(ally_cfg, val) == [ally_cfg EXCEPT !.mode = val]

\* gamepad_mode_store up to the call of __gamepad_set_mode
gamepad_mode_store(t) ==
    /\ CanBegin(t)
    /\ \E val \in ModeInputs, count \in Counts :
        IF val < xpad_mode_game \/ val > xpad_mode_mouse
            THEN Returns(t, "mode_store", -Errno.EINVAL, count, <<val>>) /\ UNCHANGED cfg
            ELSE /\ cfg' = ModeAssign(cfg, val)
                 /\ Proceeds(t, "mode_store", "set_mode", val, count, <<val>>)
                 /\ UNCHANGED snap

\* the store handlers generated by ALLY_BTN_MAPPING: __gamepad_mapping_store
btn_mapping_store_of(t, Inputs) ==
    /\ CanBegin(t)
    /\ \E in \in Inputs, count \in Counts :
        LET returns(r) ==
                /\ cfg' = r.cfg
                /\ Returns(t, "mapping_store", IF r.ret < 0 THEN r.ret ELSE count,
                           count, in)
        IN  /\ ~StrcpyOverflows(in[4])
            /\ returns(__gamepad_mapping_store(cfg, in[4], in[1], in[2], in[3]))

\* what a build makes of __string_to_key_code when strcpy writes past buf_copy:
\* the bytes after the array are not used again and the chain goes on ("returns"),
\* or the overflow is trapped and the writing task is killed inside the call,
\* after "memset(out, 0, out_len)" and before the restore ("killed")
OverflowOutcomes == {"returns", "killed"}

\* a store handler generated by ALLY_BTN_MAPPING, written a text that does not fit
\* buf_copy
btn_mapping_store_overflow(t, Inputs) ==
    /\ CanBegin(t)
    /\ \E in \in Inputs, count \in Counts, outcome \in OverflowOutcomes :
        LET returns(r) ==
                /\ cfg' = r.cfg
                /\ Returns(t, "mapping_store", IF r.ret < 0 THEN r.ret ELSE count,
                           count, in)
            block == cfg.key_mapping[cfg.mode - 1][in[1] - 1]
        IN  /\ StrcpyOverflows(in[4])
            /\ IF outcome = "returns"
                   THEN returns(__gamepad_mapping_store(cfg, in[4], in[1], in[2], in[3]))
                   ELSE /\ cfg' = [cfg EXCEPT !.key_mapping[cfg.mode - 1][in[1] - 1] =
                                       Memcpy(block, SubSlotOffs(in[2], in[3]),
                                              Kzalloc(BTN_CODE_LEN), BTN_CODE_LEN)]
                        /\ Proceeds(t, "mapping_store", "killed", 0, count, in)
                        /\ UNCHANGED snap

btn_mapping_store(t) == btn_mapping_store_of(t, MappingInputs)

\* __btn_turbo_index
__btn_turbo_index(pair, side) ==
    (pair - 1) * (2 * TURBO_BLOCK_STEP) + (side * TURBO_BLOCK_STEP)

\* turbo_btns[m][idx] = val, where turbo_btns is u8 [xpad_mode_mouse][TURBO_BLOCK_LEN]
\* followed in the struct by u32 js_calibrations[2][6]: an index of TURBO_BLOCK_LEN
\* or more addresses the bytes after row m, which are the next row or, after the
\* last row, two bytes of padding and then the lowest byte of js_calibrations[0][0]
TurboAssign(ally_cfg, m, idx, val) ==
    IF idx < TURBO_BLOCK_LEN
        THEN [ally_cfg EXCEPT !.turbo_btns[m][idx] = val]
    ELSE IF m < xpad_mode_mouse - 1
        THEN [ally_cfg EXCEPT !.turbo_btns[m + 1][idx - TURBO_BLOCK_LEN] = val]
    ELSE IF idx - TURBO_BLOCK_LEN < 2
        THEN ally_cfg
    ELSE [ally_cfg EXCEPT !.js_calibrations[0][0] =
              (@ - (@ % 256)) + val]

\* __gamepad_turbo_store: the return value and the store after it
__gamepad_turbo_store(ally_cfg, val, pair, side) ==
    IF val < 0 \/ val > 16 THEN [ret |-> -Errno.EINVAL, cfg |-> ally_cfg]
    ELSE [ret |-> 0,
          cfg |-> TurboAssign(ally_cfg, ally_cfg.mode - 1, __btn_turbo_index(pair, side), val)]

\* the turbo store handlers generated by ALLY_BTN_MAPPING
btn_turbo_store(t) ==
    /\ CanBegin(t)
    /\ \E in \in TurboInputs, count \in Counts :
        LET r == __gamepad_turbo_store(cfg, in[3], in[1], in[2])
        IN  /\ cfg' = r.cfg
            /\ Returns(t, "turbo_store", IF r.ret < 0 THEN r.ret ELSE count, count, in)

\* btn_mapping_reset_store
btn_mapping_reset_store(t) ==
    /\ CanBegin(t)
    /\ cfg' = IF cfg.mode = xpad_mode_game THEN __gamepad_mapping_xpad_default(cfg)
              ELSE IF cfg.mode = xpad_mode_wasd THEN __gamepad_mapping_wasd_default(cfg)
              ELSE __gamepad_mapping_xpad_default(cfg)
    /\ \E count \in Counts : Returns(t, "mapping_reset", count, count, <<>>)

\* a deadzone store that accepts inner > outer
__gamepad_store_deadzones_unordered(ally_cfg, axis, inner, outer) ==
    LET is_tr == IF axis > xpad_axis_xy_right THEN 1 ELSE 0
        side == IF axis = xpad_axis_xy_right \/ axis = xpad_axis_z_right THEN 2 ELSE 0
    IN  IF U32Gt(inner, 64) \/ U32Gt(outer, 64)
            THEN [ret |-> -Errno.EINVAL, cfg |-> ally_cfg]
        ELSE [ret |-> 0,
              cfg |-> [ally_cfg EXCEPT
                         !.deadzones[ally_cfg.mode - 1][is_tr][side] = U8(inner),
                         !.deadzones[ally_cfg.mode - 1][is_tr][side + 1] = U8(outer)]]

\* __gamepad_store_deadzones: the return value and the store after it
__gamepad_store_deadzones(ally_cfg, axis, inner, outer) ==
    LET is_tr == IF axis > xpad_axis_xy_right THEN 1 ELSE 0
        side == IF axis = xpad_axis_xy_right \/ axis = xpad_axis_z_right THEN 2 ELSE 0
    IN  IF U32Gt(inner, 64) \/ U32Gt(outer, 64) \/ U32Gt(inner, outer)
            THEN [ret |-> -Errno.EINVAL, cfg |-> ally_cfg]
        ELSE [ret |-> 0,
              cfg |-> [ally_cfg EXCEPT
                         !.deadzones[ally_cfg.mode - 1][is_tr][side] = U8(inner),
                         !.deadzones[ally_cfg.mode - 1][is_tr][side + 1] = U8(outer)]]

\* __gamepad_store_deadzones up to its first assignment: sscanf, the range check,
\* and deadzones[mode - 1][is_tr][side] = inner
__gamepad_store_deadzones_inner(t) ==
    /\ CanBegin(t)
    /\ \E in \in TornInputs, count \in Counts :
        LET is_tr == IF in[1] > xpad_axis_xy_right THEN 1 ELSE 0
            side == IF in[1] = xpad_axis_xy_right \/ in[1] = xpad_axis_z_right THEN 2 ELSE 0
        IN  IF U32Gt(in[2], 64) \/ U32Gt(in[3], 64) \/ U32Gt(in[2], in[3])
                THEN Returns(t, "deadzone_store", -Errno.EINVAL, count, in) /\ UNCHANGED cfg
                ELSE /\ cfg' = [cfg EXCEPT !.deadzones[cfg.mode - 1][is_tr][side] = U8(in[2])]
                     /\ Proceeds(t, "deadzone_store", "dz_outer", 0, count, in)
                     /\ UNCHANGED snap

\* __gamepad_store_deadzones from its second assignment on:
\* deadzones[mode - 1][is_tr][side + 1] = outer, and the handler's return of count
__gamepad_store_deadzones_outer(t) ==
    /\ th[t].op = "deadzone_store" /\ th[t].pc = "dz_outer"
    /\ LET in == th[t].arg
           is_tr == IF in[1] > xpad_axis_xy_right THEN 1 ELSE 0
           side == IF in[1] = xpad_axis_xy_right \/ in[1] = xpad_axis_z_right THEN 2 ELSE 0
       IN  cfg' = [cfg EXCEPT !.deadzones[cfg.mode - 1][is_tr][side + 1] = U8(in[3])]
    /\ th' = [th EXCEPT ![t].pc = "done", ![t].ret = th[t].count]
    /\ UNCHANGED <<log, snap, nops, nfail, hs, led, rog, reg, ally_x>>

\* the deadzone store handlers generated by ALLY_AXIS_DEADZONE, written one of Inputs
axis_deadzone_store_of(t, Inputs) ==
    /\ CanBegin(t)
    /\ \E in \in Inputs, count \in Counts :
        LET r == __gamepad_store_deadzones(cfg, in[1], in[2], in[3])
        IN  /\ cfg' = r.cfg
            /\ Returns(t, "deadzone_store", IF r.ret < 0 THEN r.ret ELSE count, count, in)

axis_deadzone_store(t) == axis_deadzone_store_of(t, DeadzoneInputs)

\* the deadzone show handlers generated by ALLY_AXIS_DEADZONE: the "%d %d\n" pair
\* of the axis, indexed as the store indexes it
axis_deadzone_show(ally_cfg, axis) ==
    LET is_tr == IF axis > xpad_axis_xy_right THEN 1 ELSE 0
        side == IF axis = xpad_axis_xy_right \/ axis = xpad_axis_z_right THEN 2 ELSE 0
    IN  <<ally_cfg.deadzones[ally_cfg.mode - 1][is_tr][side],
          ally_cfg.deadzones[ally_cfg.mode - 1][is_tr][side + 1]>>

\* an anti-deadzone store that checks only the upper limit
__gamepad_js_ADZ_store_upper(ally_cfg, val, side) ==
    IF val > 32 THEN [ret |-> -Errno.EINVAL, cfg |-> ally_cfg]
    ELSE [ret |-> 0,
          cfg |-> [ally_cfg EXCEPT !.anti_deadzones[ally_cfg.mode - 1][side] = U8(val)]]

\* __gamepad_js_ADZ_store: the return value and the store after it
__gamepad_js_ADZ_store(ally_cfg, val, side) ==
    IF val < 0 \/ val > 32 THEN [ret |-> -Errno.EINVAL, cfg |-> ally_cfg]
    ELSE [ret |-> 0, cfg |-> [ally_cfg EXCEPT !.anti_deadzones[ally_cfg.mode - 1][side] = val]]

\* an anti-deadzone store that also writes the anti-deadzone report to the device
xpad_axis_xy_ADZ_store_sends(t) ==
    /\ CanBegin(t)
    /\ \E in \in AntiDeadzoneInputs, count \in Counts :
        LET r == __gamepad_js_ADZ_store(cfg, in[2], in[1])
        IN  /\ cfg' = r.cfg
            /\ th' = [th EXCEPT ![t] = [op |-> "adz_store", pc |-> "done",
                                        ret |-> IF r.ret # 0 THEN r.ret ELSE count,
                                        val |-> 0, count |-> count, arg |-> in]]
            /\ log' = [log EXCEPT ![t] =
                          <<SetReport(AntiDeadzonePkt(r.cfg), FEATURE_ROG_ALLY_REPORT_SIZE)>>]
            /\ nops' = nops + 1
            /\ UNCHANGED <<snap, nfail, hs, led, rog, reg, ally_x>>

\* xpad_axis_xy_left_ADZ_store and xpad_axis_xy_right_ADZ_store
xpad_axis_xy_ADZ_store(t) ==
    /\ CanBegin(t)
    /\ \E in \in AntiDeadzoneInputs, count \in Counts :
        LET r == __gamepad_js_ADZ_store(cfg, in[2], in[1])
        IN  /\ cfg' = r.cfg
            /\ Returns(t, "adz_store", IF r.ret # 0 THEN r.ret ELSE count, count, in)

\* __gamepad_store_response_curve: the return value and the store after it
__gamepad_store_response_curve(ally_cfg, side, point, move, response) ==
    LET idx == (point - 1) * 2
    IN  IF U32Gt(move, 64) \/ U32Gt(response, 64)
            THEN [ret |-> -Errno.EINVAL, cfg |-> ally_cfg]
        ELSE [ret |-> 0,
              cfg |-> [ally_cfg EXCEPT
                         !.response_curve[ally_cfg.mode - 1][side][idx] = U8(move),
                         !.response_curve[ally_cfg.mode - 1][side][idx + 1] = U8(response)]]

\* the rc_point store handlers generated by ALLY_JS_RC_POINT
rc_point_store(t) ==
    /\ CanBegin(t)
    /\ \E in \in ResponseCurveInputs, count \in Counts :
        LET r == __gamepad_store_response_curve(cfg, in[1], in[2], in[3], in[4])
        IN  /\ cfg' = r.cfg
            /\ Returns(t, "rc_store", IF r.ret < 0 THEN r.ret ELSE count, count, in)

\* gamepad_vibration_intensity_store up to __gamepad_write_vibe_intensity_to_mcu:
\* the range check and the two assignments
VibrationAssign(ally_cfg, left, right) ==
    [ally_cfg EXCEPT !.vibration_intensity[ally_cfg.mode - 1][btn_pair_side_left] = left,
                     !.vibration_intensity[ally_cfg.mode - 1][btn_pair_side_right] = right]

\* a vibration-intensity store that checks only the left value
gamepad_vibration_intensity_store_left(t) ==
    /\ CanBegin(t)
    /\ \E in \in VibrationInputs, count \in Counts :
        IF U32Gt(in[1], 64)
            THEN Returns(t, "vibe_store", -Errno.EINVAL, count, in) /\ UNCHANGED cfg
            ELSE /\ cfg' = VibrationAssign(cfg, U8(in[1]), U8(in[2]))
                 /\ Proceeds(t, "vibe_store", "vibe", 0, count, in)
                 /\ UNCHANGED snap

\* gamepad_vibration_intensity_show: the "%d %d\n" pair of the active mode
gamepad_vibration_intensity_show(ally_cfg) ==
    <<ally_cfg.vibration_intensity[ally_cfg.mode - 1][btn_pair_side_left],
      ally_cfg.vibration_intensity[ally_cfg.mode - 1][btn_pair_side_right]>>

gamepad_vibration_intensity_store(t) ==
    /\ CanBegin(t)
    /\ \E in \in VibrationInputs, count \in Counts :
        IF U32Gt(in[1], 64) \/ U32Gt(in[2], 64)
            THEN Returns(t, "vibe_store", -Errno.EINVAL, count, in) /\ UNCHANGED cfg
            ELSE /\ cfg' = VibrationAssign(cfg, U8(in[1]), U8(in[2]))
                 /\ Proceeds(t, "vibe_store", "vibe", 0, count, in)
                 /\ UNCHANGED snap

\* ------------------------------------------------------------ calibration
\* side = axis == xpad_axis_xy_right || axis == xpad_axis_z_right ? 1 : 0
CalSide(axis) == IF axis = xpad_axis_xy_right \/ axis = xpad_axis_z_right THEN 1 ELSE 0

\* data_len = axis > xpad_axis_xy_right ? 2 : 6
CalDataLen(axis) == IF axis > xpad_axis_xy_right THEN 2 ELSE 6

\* pkt_len = axis > xpad_axis_xy_right ? 0x06 : 0x0E
CalPktLen(axis) == IF axis > xpad_axis_xy_right THEN 6 ELSE 14

\* the two bytes the loop writes for cal: (cal & 0xff00) >> 8, then cal & 0xff
CalBytes(cal) == <<(cal % 65536) \div 256, cal % 256>>

\* the bytes the loop of __gamepad_write_cal_to_mcu writes from &hidbuf[6] on: the
\* first data_len entries of js_calibrations[side], whatever the axis
RECURSIVE CalData(_, _)
CalData(cals, n) ==
    IF n = 0 THEN <<>> ELSE CalData(cals, n - 1) \o CalBytes(cals[n - 1])

RECURSIVE SumBytes(_)
SumBytes(bytes) == IF bytes = <<>> THEN 0 ELSE Head(bytes) + SumBytes(Tail(bytes))

\* hidbuf[6 + data_len * 2] = checksum: the int sum of the bytes written by the
\* loop, stored to a u8
CalChecksum(data, axis) == U8(SumBytes(data))

\* the first report of __gamepad_write_cal_to_mcu
CalPkt(ally_cfg, axis) ==
    LET data == CalData(ally_cfg.js_calibrations[CalSide(axis)], CalDataLen(axis))
        head == Assign(Kzalloc(FEATURE_ROG_ALLY_REPORT_SIZE), 0,
                       <<FEATURE_ROG_ALLY_REPORT_ID, FEATURE_ROG_ALLY_CODE_PAGE,
                         xpad_cmd_set_calibration, CalPktLen(axis), 1, axis>>)
    IN  [Assign(head, 6, data) EXCEPT ![6 + CalDataLen(axis) * 2] = CalChecksum(data, axis)]

\* the second report without "hidbuf[3] = xpad_cmd_len_calibration3"
CalCommitPkt_nolen ==
    Assign(Kzalloc(FEATURE_ROG_ALLY_REPORT_SIZE), 0,
           <<FEATURE_ROG_ALLY_REPORT_ID, FEATURE_ROG_ALLY_CODE_PAGE,
             xpad_cmd_set_calibration, 0, 3>>)

\* the second report of __gamepad_write_cal_to_mcu
CalCommitPkt ==
    Assign(Kzalloc(FEATURE_ROG_ALLY_REPORT_SIZE), 0,
           <<FEATURE_ROG_ALLY_REPORT_ID, FEATURE_ROG_ALLY_CODE_PAGE,
             xpad_cmd_set_calibration, xpad_cmd_len_calibration3, 3>>)

\* __gamepad_cal_store with the stick's groups stored in the order read
CalAssign_inorder(ally_cfg, axis, v) ==
    IF axis = xpad_axis_xy_left \/ axis = xpad_axis_xy_right
        THEN [ally_cfg EXCEPT !.js_calibrations[CalSide(axis)] =
                  [i \in 0..5 |-> v[i + 1]]]
        ELSE [ally_cfg EXCEPT !.tr_calibrations[CalSide(axis)] =
                  [i \in 0..1 |-> v[i + 1]]]

\* __gamepad_cal_store: the assignments after a complete sscanf; v is
\* <<x_stable, x_min, x_max, y_stable, y_min, y_max>> or <<x_stable, x_max>>
CalAssign(ally_cfg, axis, v) ==
    IF axis = xpad_axis_xy_left \/ axis = xpad_axis_xy_right
        THEN [ally_cfg EXCEPT !.js_calibrations[CalSide(axis)] =
                  [i \in 0..5 |-> IF i < 3 THEN v[i + 4] ELSE v[i - 2]]]
        ELSE [ally_cfg EXCEPT !.tr_calibrations[CalSide(axis)] =
                  [i \in 0..1 |-> v[i + 1]]]

\* __gamepad_cal_show printing a stick's entries in the order they are held
__gamepad_cal_show_held(ally_cfg, axis) ==
    LET js == ally_cfg.js_calibrations[CalSide(axis)]
        tr == ally_cfg.tr_calibrations[CalSide(axis)]
    IN  IF axis = xpad_axis_xy_left \/ axis = xpad_axis_xy_right
            THEN <<js[0], js[1], js[2], js[3], js[4], js[5]>>
        ELSE <<tr[0], tr[1]>>

\* __gamepad_cal_show: the numbers sysfs_emit prints with "%d", in order.  The
\* entries are u32 holding the bit pattern sscanf("%d") stored, so "%d" prints the
\* int that was read.
__gamepad_cal_show(ally_cfg, axis) ==
    LET js == ally_cfg.js_calibrations[CalSide(axis)]
        tr == ally_cfg.tr_calibrations[CalSide(axis)]
    IN  IF axis = xpad_axis_xy_left \/ axis = xpad_axis_xy_right
            THEN <<js[3], js[4], js[5], js[0], js[1], js[2]>>
        ELSE <<tr[0], tr[1]>>

\* sscanf(buf, "%d %d ...") of a text of Len(v) numbers, asked for n of them
Sscanf(v, n) == IF Len(v) < n THEN Len(v) ELSE n

\* the first report of __gamepad_cal_reset
CalResetPkt(axis) ==
    Assign(Kzalloc(FEATURE_ROG_ALLY_REPORT_SIZE), 0,
           <<FEATURE_ROG_ALLY_REPORT_ID, FEATURE_ROG_ALLY_CODE_PAGE,
             xpad_cmd_set_calibration, xpad_cmd_len_calibration2, 2, axis>>)

\* the two sends without "if (ret < 0) goto report_fail" after the first
CalSends_nogoto(first, r1, r2) ==
    <<SetReport(first, r1), SetReport(CalCommitPkt, r2)>>

\* the two asus_dev_set_report calls of __gamepad_write_cal_to_mcu and of
\* __gamepad_cal_reset: the first report, returning r1, and unless r1 < 0 the
\* commit report, returning r2
CalSends(first, r1, r2) ==
    IF r1 < 0 THEN <<SetReport(first, r1)>>
    ELSE <<SetReport(first, r1), SetReport(CalCommitPkt, r2)>>

\* a calibration handler of thread t, written arg, has made the requests io and
\* returns ret
CalReturns(t, op, arg, count, ret, io) ==
    /\ th' = [th EXCEPT ![t] = [op |-> op, pc |-> "done", ret |-> ret,
                                val |-> 0, count |-> count, arg |-> arg]]
    /\ log' = [log EXCEPT ![t] = io]
    /\ nfail' = nfail + Cardinality({i \in 1..Len(io) : io[i].ret < 0})
    /\ nops' = nops + 1
    /\ UNCHANGED <<snap, hs, led, rog, reg, ally_x>>

\* the calibration store handlers (ALLY_CAL_ATTR): __gamepad_cal_store and the
\* __gamepad_write_cal_to_mcu it ends with; in is <<axis, numbers written>>
xpad_axis_cal_store_of(t, Inputs) ==
    /\ CanBegin(t)
    /\ \E in \in Inputs, count \in Counts :
        LET axis == in[1]
            n == IF axis = xpad_axis_xy_left \/ axis = xpad_axis_xy_right THEN 6 ELSE 2
            sent(io) == CalReturns(t, "cal_store", in, count, io[Len(io)].ret, io)
        IN  IF Sscanf(in[2], n) # n
                THEN /\ CalReturns(t, "cal_store", in, count, -Errno.EINVAL, <<>>)
                     /\ UNCHANGED cfg
            ELSE /\ cfg' = CalAssign(cfg, axis, in[2])
                 /\ \E r1 \in SendResults, r2 \in SendResults :
                        sent(CalSends(CalPkt(cfg', axis), r1, r2))

\* the calibration reset handlers (ALLY_CAL_RESET_ATTR): __gamepad_cal_reset, which
\* ignores the text written; arg is <<axis>>
xpad_axis_cal_reset_store(t) ==
    /\ CanBegin(t)
    /\ \E axis \in xpad_axis_xy_left..xpad_axis_z_right, count \in Counts,
          r1 \in SendResults, r2 \in SendResults :
        LET sent(io) == CalReturns(t, "cal_reset", <<axis>>, count, io[Len(io)].ret, io)
        IN  sent(CalSends(CalResetPkt(axis), r1, r2))
    /\ UNCHANGED cfg

\* -------------------------------------------------------------------- LEDs
\* The sections between spin_lock_irqsave(&led->lock) and spin_unlock_irqrestore
\* are single steps; what a function does outside the lock is a step of its own.

\* the two LED class callbacks may be running in two callers at once
LedCallers == {1, 2}

\* values written to the backlight's brightness (max_brightness = 3)
BrightnessInputs == {1, 3}

\* <<red, green, blue>> as led_mc_calc_color_components leaves them in subled_info
RgbInputs == {<<255, 0, 0>>, <<0, 128, 64>>}

\* ally_gamepad_register_leds: the zeroed struct, brightness = 0, removed = false,
\* the work item initialised and not queued; no callback and no removal runs
LedCreate ==
    [brightness |-> 0, gamepad_red |-> 0, gamepad_green |-> 0, gamepad_blue |-> 0,
     update_bright |-> FALSE, update_rgb |-> FALSE, removed |-> FALSE,
     pending |-> FALSE, work |-> "idle", w_bright |-> FALSE, w_rgb |-> FALSE,
     buf |-> <<>>,
     caller |-> [c \in LedCallers |-> "idle"],
     remove |-> "bound",
     sent |-> <<>>, nbright |-> 0, nrgb |-> 0]

\* u8 buf[] of ally_led_do_brightness with buf[4] = led->brightness
BrightnessPkt(l) ==
    Assign(Kzalloc(5), 0, <<FEATURE_KBD_REPORT_ID, 186, 197, 196, l.brightness>>)

\* u8 buf[] of ally_led_do_rgb: 17 bytes, the colour copied four times
RgbPkt(l) ==
    Assign(Kzalloc(17), 0,
           <<FEATURE_ROG_ALLY_REPORT_ID, FEATURE_ROG_ALLY_CODE_PAGE,
             xpad_cmd_set_leds, xpad_cmd_len_leds,
             l.gamepad_red, l.gamepad_green, l.gamepad_blue,
             l.gamepad_red, l.gamepad_green, l.gamepad_blue,
             l.gamepad_red, l.gamepad_green, l.gamepad_blue,
             l.gamepad_red, l.gamepad_green, l.gamepad_blue>>)

\* asus_dev_set_report(led->hdev, buf, sizeof(buf)): sizeof(buf) when accepted
LedSendResults(buf) ==
    {Cardinality(DOMAIN buf)} \cup (IF nfail < MaxFail THEN {-Errno.EIO} ELSE {})

\* a step of the LED code: it leaves the store and the sysfs handlers alone
LedStep(l) ==
    /\ led' = l
    /\ UNCHANGED <<cfg, th, log, snap, nops, nfail, hs, rog, reg, ally_x>>

\* ally_backlight_set up to its call of ally_schedule_work
ally_backlight_set(c) ==
    /\ led.caller[c] = "idle"
    /\ led.nbright + led.nrgb < MaxSets
    /\ \E brightness \in BrightnessInputs :
        LedStep([led EXCEPT !.update_bright = TRUE, !.brightness = brightness,
                            !.caller[c] = "schedule", !.nbright = @ + 1])

\* ally_gamepad_set_rgb_brightness up to its call of ally_schedule_work
ally_gamepad_set_rgb_brightness(c) ==
    /\ led.caller[c] = "idle"
    /\ led.nbright + led.nrgb < MaxSets
    /\ \E rgb \in RgbInputs :
        LedStep([led EXCEPT !.update_rgb = TRUE, !.gamepad_red = rgb[1],
                            !.gamepad_green = rgb[2], !.gamepad_blue = rgb[3],
                            !.caller[c] = "schedule", !.nrgb = @ + 1])

\* schedule_work(&led->work): queues the work item unless it is queued already or
\* cancel_work_sync holds it
schedule_work(l) ==
    IF l.pending \/ l.remove = "cancel_wait" THEN l ELSE [l EXCEPT !.pending = TRUE]

\* ally_schedule_work calling schedule_work whatever led->removed is
ally_schedule_work_unchecked(c) ==
    /\ led.caller[c] = "schedule"
    /\ LedStep([schedule_work(led) EXCEPT !.caller[c] = "idle"])

\* ally_schedule_work, the last call of both callbacks
ally_schedule_work(c) ==
    /\ led.caller[c] = "schedule"
    /\ LedStep([(IF ~led.removed THEN schedule_work(led) ELSE led)
                    EXCEPT !.caller[c] = "idle"])

\* the workqueue runs the queued work item, one run at a time
ally_led_work_run ==
    /\ led.pending
    /\ led.work = "idle"
    /\ LedStep([led EXCEPT !.pending = FALSE, !.work = "read"])

\* what ally_led_work and its callees do after a step, given its two locals
LedWorkNext(after, update_bright, update_rgb) ==
    IF after = "read" /\ update_bright THEN "bright"
    ELSE IF after \in {"read", "bright"} /\ update_rgb THEN "rgb"
    ELSE "idle"

\* ally_led_work: the two flags are read into locals
ally_led_work ==
    /\ led.work = "read"
    /\ LedStep([led EXCEPT !.w_bright = led.update_bright, !.w_rgb = led.update_rgb,
                            !.work = LedWorkNext("read", led.update_bright,
                                                 led.update_rgb)])

\* ally_led_do_brightness clearing both update flags
ally_led_do_brightness_both ==
    /\ led.work = "bright"
    /\ LedStep([led EXCEPT !.update_bright = FALSE, !.update_rgb = FALSE,
                            !.buf = BrightnessPkt(led), !.work = "bright_send"])

\* ally_led_do_brightness: the flag is cleared and the brightness copied
ally_led_do_brightness ==
    /\ led.work = "bright"
    /\ LedStep([led EXCEPT !.update_bright = FALSE, !.buf = BrightnessPkt(led),
                            !.work = "bright_send"])

\* ally_led_do_rgb: the colour is copied and the flag cleared
ally_led_do_rgb ==
    /\ led.work = "rgb"
    /\ LedStep([led EXCEPT !.update_rgb = FALSE, !.buf = RgbPkt(led),
                            !.work = "rgb_send"])

\* the asus_dev_set_report call of ally_led_do_brightness and of ally_led_do_rgb; a
\* failure is logged only
ally_led_send ==
    /\ led.work \in {"bright_send", "rgb_send"}
    /\ \E r \in LedSendResults(led.buf) :
        /\ led' = [led EXCEPT !.sent = @ \o <<SetReport(led.buf, r)>>,
                              !.work = LedWorkNext(IF led.work = "bright_send"
                                                       THEN "bright" ELSE "rgb",
                                                   led.w_bright, led.w_rgb)]
        /\ nfail' = nfail + (IF r < 0 THEN 1 ELSE 0)
    /\ UNCHANGED <<cfg, th, log, snap, nops, hs, rog, reg, ally_x>>

\* ally_gamepad_cfg_remove: led_rgb->removed = true
ally_gamepad_cfg_remove ==
    /\ led.remove = "bound"
    /\ th[1].pc \in {"idle", "done"}
    /\ LedStep([led EXCEPT !.removed = TRUE, !.remove = "cancel"])

\* cancel_work_sync(&led_rgb->work): a queued work item is taken off the queue
cancel_work_sync ==
    /\ led.remove = "cancel"
    /\ LedStep([led EXCEPT !.pending = FALSE, !.remove = "cancel_wait"])

\* cancel_work_sync returns once no run of the work item is in progress, and
\* ally_gamepad_cfg_remove goes on to __gamepad_set_mode(hdev, ally_cfg,
\* xpad_mode_mouse)
cancel_work_sync_return ==
    /\ led.remove = "cancel_wait"
    /\ led.work = "idle"
    /\ led' = [led EXCEPT !.remove = "cancelled"]
    /\ th' = [th EXCEPT ![1] = [op |-> "remove", pc |-> "set_mode", ret |-> 0,
                                val |-> xpad_mode_mouse, count |-> 0, arg |-> <<>>]]
    /\ log' = [log EXCEPT ![1] = <<>>]
    /\ UNCHANGED <<cfg, snap, nops, nfail, hs, rog, reg, ally_x>>

\* ------------------------------------------------------- the older variant
\* The second driver of the file (asus_rog_ally_probe and the functions before it):
\* struct asus_rog_ally holds one mode, and __gamepad_set_mode sends the set-mode
\* report and then one set-mapping report for the pair M1/M2 from the same buffer.
\* rog.th[t] is the position of thread t in it and rog.log[t] the transport
\* requests of the handler t runs.

RogIdle == [op |-> "none", pc |-> "idle", ret |-> 0, val |-> 0, count |-> 0, arg |-> <<>>]

\* what a transport call of the older variant may return
RogResults ==
    {FEATURE_ROG_ALLY_REPORT_SIZE} \cup (IF rog.nfail < MaxFail THEN {-Errno.EIO} ELSE {})

\* values kstrtoint reads from the text written to gamepad_mode
RogModeInputs == 0..4

\* asus_rog_ally_probe has allocated rog_ally_data, set mode and the deadzones, and
\* is about to call __gamepad_set_mode(ally_xpad_mode_game)
asus_rog_ally_probe ==
    [mode |-> ally_xpad_mode_game,
     deadzones |-> [i \in 0..1 |-> [j \in 0..3 |-> IF j \in {1, 3} THEN 64 ELSE 0]],
     th |-> [t \in Threads |->
                IF t = 1 THEN [op |-> "probe", pc |-> "check_set", ret |-> 0,
                               val |-> ally_xpad_mode_game, count |-> 0, arg |-> <<>>]
                ELSE RogIdle],
     log |-> [t \in Threads |-> <<>>],
     nops |-> 0,
     nfail |-> 0]

\* the report of __gamepad_check_ready
RogCheckReadyPkt ==
    Assign(Kzalloc(FEATURE_ROG_ALLY_REPORT_SIZE), 0,
           <<FEATURE_KBD_REPORT_ID, FEATURE_ROG_ALLY_CODE_PAGE,
             ally_xpad_cmd_check_ready, 1>>)

\* the first report of __gamepad_set_mode
RogSetModePkt(val) ==
    Assign(Kzalloc(FEATURE_ROG_ALLY_REPORT_SIZE), 0,
           <<FEATURE_KBD_REPORT_ID, FEATURE_ROG_ALLY_CODE_PAGE,
             ally_xpad_cmd_set_mode, 1, val>>)

\* the second report of __gamepad_set_mode: the buffer of the first with
\* hidbuf[2..5], hidbuf[7], hidbuf[27] and hidbuf[29] assigned
RogPrimePkt(val) ==
    [Assign(RogSetModePkt(val), 2, <<2, 8, 44, 2>>)
        EXCEPT ![7] = 16, ![27] = 2, ![29] = 16]

\* thread t makes the transport request io
RogRequest(t, io) ==
    [rog EXCEPT !.log[t] = Append(@, io),
                !.nfail = @ + (IF io.ret < 0 THEN 1 ELSE 0)]

\* the function thread t runs returns ret to its caller, which returns it or, for
\* a store that succeeded, the count
RogReturn(r, t, ret) ==
    [r EXCEPT !.th[t].pc = "done",
              !.th[t].ret = IF ret < 0 \/ r.th[t].op \notin {"store", "dz_store"} THEN ret
                            ELSE r.th[t].count]

RogStep(r) ==
    /\ rog' = r
    /\ UNCHANGED <<cfg, th, log, snap, nops, nfail, hs, led, reg, ally_x>>

\* gamepad_mode_store: kstrtoint, the range check, rog_ally->mode = val, and the
\* call of __gamepad_set_mode
rog_ally_gamepad_mode_store(t) ==
    /\ rog.th[t].pc \in {"idle", "done"}
    /\ rog.th[1].op = "probe" => rog.th[1].pc = "done" /\ rog.th[1].ret >= 0
    /\ rog.th[1].op # "remove"
    /\ rog.nops < MaxOps
    /\ \E val \in RogModeInputs, count \in Counts :
          LET begun == [rog EXCEPT !.nops = @ + 1, !.log[t] = <<>>,
                                   !.th[t] = [op |-> "store", pc |-> "check_set",
                                              ret |-> 0, val |-> val, count |-> count,
                                              arg |-> <<>>]]
          IN  IF val < ally_xpad_mode_game \/ val > ally_xpad_mode_mouse
                  THEN RogStep(RogReturn(begun, t, -Errno.EINVAL))
                  ELSE RogStep([begun EXCEPT !.mode = val])

\* asus_rog_ally_remove: __gamepad_set_mode(ally_xpad_mode_mouse), its result unused
asus_rog_ally_remove ==
    /\ \A t \in Threads : rog.th[t].pc \in {"idle", "done"}
    /\ rog.th[1].op \in {"store", "dz_store", "probe"} /\ rog.th[1].ret >= 0
    /\ RogStep([rog EXCEPT !.log[1] = <<>>,
                           !.th[1] = [op |-> "remove", pc |-> "check_set", ret |-> 0,
                                      val |-> ally_xpad_mode_mouse, count |-> 0,
                                      arg |-> <<>>]])

\* a readiness check that does not compare the echoed command
rog_ally__gamepad_check_ready_any_echo(t) ==
    \/ /\ rog.th[t].pc = "check_set"
       /\ \E r \in RogResults :
             LET sent == RogRequest(t, SetReport(RogCheckReadyPkt, r))
             IN  RogStep(IF r < 0 THEN RogReturn(sent, t, r)
                         ELSE [sent EXCEPT !.th[t].pc = "check_get"])
    \/ /\ rog.th[t].pc = "check_get"
       /\ \E r \in RogResults, hidbuf2 \in {ally_xpad_cmd_check_ready, 0} :
             LET got == RogRequest(t, GetReport([RogCheckReadyPkt EXCEPT ![0] = 0, ![1] = 0,
                                                     ![2] = hidbuf2, ![3] = 0], r))
             IN  RogStep(IF r < 0 THEN RogReturn(got, t, r)
                         ELSE [got EXCEPT !.th[t].pc = IF got.th[t].op = "dz_store"
                                                           THEN "set_dz" ELSE "set_mode"])

\* __gamepad_check_ready of the older variant: one set report, one get report, and
\* the comparison of the echoed command
rog_ally__gamepad_check_ready(t) ==
    \/ /\ rog.th[t].pc = "check_set"
       /\ \E r \in RogResults :
             LET sent == RogRequest(t, SetReport(RogCheckReadyPkt, r))
             IN  RogStep(IF r < 0 THEN RogReturn(sent, t, r)
                         ELSE [sent EXCEPT !.th[t].pc = "check_get"])
    \/ /\ rog.th[t].pc = "check_get"
       /\ \E r \in RogResults, hidbuf2 \in {ally_xpad_cmd_check_ready, 0} :
             LET got == RogRequest(t, GetReport([RogCheckReadyPkt EXCEPT ![0] = 0, ![1] = 0,
                                                     ![2] = hidbuf2, ![3] = 0], r))
             IN  RogStep(IF r < 0 THEN RogReturn(got, t, r)
                         ELSE IF hidbuf2 # ally_xpad_cmd_check_ready
                             THEN RogReturn(got, t, -Errno.ENOMSG)
                         ELSE [got EXCEPT !.th[t].pc = IF got.th[t].op = "dz_store"
                                                           THEN "set_dz" ELSE "set_mode"])

\* <<axis, inner, outer>> that sscanf reads from the text written to a deadzone
\* attribute of the older variant
RogDeadzoneInputs ==
    {<<ally_xpad_axis_xy_left, 10, 20>>, <<ally_xpad_axis_z_right, 5, 6>>,
     <<ally_xpad_axis_xy_right, 20, 10>>}

\* is_js, side and cmd as __gamepad_set_deadzones of the older variant computes them
RogIsJs(axis) == IF axis <= ally_xpad_axis_xy_right THEN 0 ELSE 1
RogSide(axis) ==
    IF axis = ally_xpad_axis_xy_right \/ axis = ally_xpad_axis_z_right THEN 2 ELSE 0

RogDeadzoneCmd(axis) ==
    IF RogIsJs(axis) = 1 THEN ally_xpad_cmd_set_js_dz ELSE ally_xpad_cmd_set_tr_dz

\* the report of __gamepad_set_deadzones of the older variant
RogDeadzonePkt(r, axis) ==
    Assign(Kzalloc(FEATURE_ROG_ALLY_REPORT_SIZE), 0,
           <<FEATURE_KBD_REPORT_ID, FEATURE_ROG_ALLY_CODE_PAGE, RogDeadzoneCmd(axis), 4,
             r.deadzones[RogIsJs(axis)][0], r.deadzones[RogIsJs(axis)][1],
             r.deadzones[RogIsJs(axis)][2], r.deadzones[RogIsJs(axis)][3]>>)

\* the deadzone store handlers of the older variant up to the call of
\* __gamepad_check_ready: sscanf, the range check, and the two assignments
rog_ally__gamepad_set_deadzones(t) ==
    /\ rog.th[t].pc \in {"idle", "done"}
    /\ rog.th[1].op = "probe" => rog.th[1].pc = "done" /\ rog.th[1].ret >= 0
    /\ rog.th[1].op # "remove"
    /\ rog.nops < MaxOps
    /\ \E in \in RogDeadzoneInputs, count \in Counts :
          LET begun == [rog EXCEPT !.nops = @ + 1, !.log[t] = <<>>,
                                   !.th[t] = [op |-> "dz_store", pc |-> "check_set",
                                              ret |-> 0, val |-> in[1], count |-> count,
                                              arg |-> in]]
          IN  IF U32Gt(in[2], 64) \/ U32Gt(in[3], 64) \/ U32Gt(in[2], in[3])
                  THEN RogStep(RogReturn(begun, t, -Errno.EINVAL))
                  ELSE RogStep([begun EXCEPT
                          !.deadzones[RogIsJs(in[1])][RogSide(in[1])] = U8(in[2]),
                          !.deadzones[RogIsJs(in[1])][RogSide(in[1]) + 1] = U8(in[3])])

\* __gamepad_set_deadzones of the older variant below its call of
\* __gamepad_check_ready: the one report, whose result is returned
rog_ally__gamepad_set_deadzones_report(t) ==
    /\ rog.th[t].pc = "set_dz"
    /\ \E r \in RogResults :
          RogStep(RogReturn(RogRequest(t, SetReport(RogDeadzonePkt(rog, rog.th[t].val), r)),
                            t, r))

\* __gamepad_set_mode returning the result of its second report
rog_ally__gamepad_set_mode_reports(t) ==
    \/ /\ rog.th[t].pc = "set_mode"
       /\ \E r \in RogResults :
             LET sent == RogRequest(t, SetReport(RogSetModePkt(rog.th[t].val), r))
             IN  RogStep(IF r < 0 THEN RogReturn(sent, t, r)
                         ELSE [sent EXCEPT !.th[t].pc = "prime"])
    \/ /\ rog.th[t].pc = "prime"
       /\ \E r \in RogResults :
             RogStep(RogReturn(RogRequest(t, SetReport(RogPrimePkt(rog.th[t].val), r)),
                               t, IF r < 0 THEN r ELSE 0))

\* __gamepad_set_mode below its call of __gamepad_check_ready: the set-mode report,
\* "return ret" if it failed, then the M1/M2 report, whose result is dropped, and
\* "return 0"
rog_ally__gamepad_set_mode(t) ==
    \/ /\ rog.th[t].pc = "set_mode"
       /\ \E r \in RogResults :
             LET sent == RogRequest(t, SetReport(RogSetModePkt(rog.th[t].val), r))
             IN  RogStep(IF r < 0 THEN RogReturn(sent, t, r)
                         ELSE [sent EXCEPT !.th[t].pc = "prime"])
    \/ /\ rog.th[t].pc = "prime"
       /\ \E r \in RogResults :
             RogStep(RogReturn(RogRequest(t, SetReport(RogPrimePkt(rog.th[t].val), r)),
                               t, 0))

\* ------------------------------------------------- registration of the LEDs
\* reg follows ally_gamepad_register_leds statement by statement, with the two LED
\* class callbacks free to run in two callers as soon as the class device that
\* carries them is registered.  reg.uninit collects the uses of the work item and
\* of the spinlock made before INIT_WORK and spin_lock_init.

\* callback invocations during one registration
MaxCalls == 2

\* what devm_led_classdev_register and devm_led_classdev_multicolor_register return
RegisterResults == {0, -Errno.ENOMEM}

\* ally_gamepad_register_leds after its devm_kzalloc: the struct is all zero and
\* ally_gamepad_register_bright_leds is about to be called
ally_gamepad_register_leds ==
    [pc |-> "bright", ret |-> 0,
     bright_dev |-> FALSE, rgb_dev |-> FALSE,
     work_init |-> FALSE, lock_init |-> FALSE,
     caller |-> [c \in LedCallers |-> "idle"], ncalls |-> 0,
     uninit |-> {}]

\* ally_gamepad_register_leds has returned 0 and no callback ran meanwhile
ally_gamepad_register_leds_done ==
    [ally_gamepad_register_leds EXCEPT !.pc = "done",
                                       !.bright_dev = TRUE, !.rgb_dev = TRUE,
                                       !.work_init = TRUE, !.lock_init = TRUE]

RegStep(r) ==
    /\ reg' = r
    /\ UNCHANGED <<cfg, th, log, snap, nops, nfail, hs, led, rog, ally_x>>

\* the use of the lock by function f, noted when spin_lock_init has not run
RegLock(r, f) ==
    IF r.lock_init THEN r ELSE [r EXCEPT !.uninit = @ \cup {<<f, "lock">>}]

\* the use of the work item by function f, noted when INIT_WORK has not run
RegWork(r, f) ==
    IF r.work_init THEN r ELSE [r EXCEPT !.uninit = @ \cup {<<f, "work">>}]

\* ally_gamepad_register_bright_leds, called when ally_gamepad_cfg_create has sent
\* its reports, and the test of its result
ally_gamepad_register_bright_leds ==
    /\ reg.pc = "bright"
    /\ th[1].op = "create" /\ th[1].pc = "done"
    /\ \E ret \in RegisterResults :
          RegStep(IF ret < 0 THEN [reg EXCEPT !.pc = "cancel", !.ret = ret]
                  ELSE [reg EXCEPT !.bright_dev = TRUE, !.pc = "rgb"])

\* ally_gamepad_register_rgb_leds and the test of its result
ally_gamepad_register_rgb_leds ==
    /\ reg.pc = "rgb"
    /\ \E ret \in RegisterResults :
          RegStep(IF ret < 0 THEN [reg EXCEPT !.pc = "cancel", !.ret = ret]
                  ELSE [reg EXCEPT !.rgb_dev = TRUE, !.pc = "init_work"])

\* the error paths: cancel_work_sync(&ally_cfg->led_rgb->work), devm_kfree, return ret
ally_gamepad_register_leds_error ==
    /\ reg.pc = "cancel"
    /\ RegStep([RegWork(reg, "cancel_work_sync") EXCEPT !.pc = "failed"])

\* INIT_WORK(&ally_cfg->led_rgb->work, ally_led_work)
ally_gamepad_register_leds_init_work ==
    /\ reg.pc = "init_work"
    /\ RegStep([reg EXCEPT !.work_init = TRUE, !.pc = "init_lock"])

\* spin_lock_init(&ally_cfg->led_rgb->lock) and return 0
ally_gamepad_register_leds_init_lock ==
    /\ reg.pc = "init_lock"
    /\ RegStep([reg EXCEPT !.lock_init = TRUE, !.pc = "done"])

\* ally_backlight_set or ally_gamepad_set_rgb_brightness, called through a class
\* device that is registered, up to the call of ally_schedule_work
register_leds_callback(c) ==
    /\ reg.caller[c] = "idle"
    /\ reg.pc \notin {"cancel", "failed"}
    /\ reg.ncalls < MaxCalls
    /\ \E f \in {"ally_backlight_set", "ally_gamepad_set_rgb_brightness"} :
          /\ IF f = "ally_backlight_set" THEN reg.bright_dev ELSE reg.rgb_dev
          /\ RegStep([RegLock(reg, f) EXCEPT !.caller[c] = "schedule", !.ncalls = @ + 1])

\* ally_schedule_work called by a callback: the lock, and schedule_work since
\* removed is false
register_leds_schedule_work(c) ==
    /\ reg.caller[c] = "schedule"
    /\ RegStep([RegWork(RegLock(reg, "ally_schedule_work"), "schedule_work")
                   EXCEPT !.caller[c] = "idle"])

\* ----------------------------------------------------------------- Ally X
\* ally_x is struct rog_ally_device with its rumble packet, its work item and the
\* positions of two callers of ally_x_play_effect and of ally_x_remove.  The input
\* device comes from devm_input_allocate_device, so it outlives ally_x_remove and
\* ally_x_play_effect may be called while and after ally_x_remove runs.

\* calls of ally_x_play_effect
MaxPlays == 2

\* <<effect->type, strong_magnitude, weak_magnitude>>
FfInputs == {<<"FF_RUMBLE", 65535, 512>>, <<"FF_RUMBLE", 0, 0>>, <<"FF_PERIODIC", 1024, 1024>>}

\* ally_x_create has returned 0
ally_x_create ==
    [output_worker_initialized |-> TRUE,
     ff |-> [magnitude_left |-> 0, magnitude_right |-> 0,
             magnitude_strong |-> 0, magnitude_weak |-> 0],
     pending |-> FALSE, worker |-> "idle",
     remove |-> "bound",
     player |-> [c \in LedCallers |-> "idle"], nplays |-> 0,
     sent |-> <<>>]

AllyXStep(a) ==
    /\ ally_x' = a
    /\ UNCHANGED <<cfg, th, log, snap, nops, nfail, hs, led, rog, reg>>

\* ally_x_play_effect up to its call of schedule_work: the two magnitudes and the
\* read of output_worker_initialized, which is made without the lock
ally_x_play_effect(c) ==
    /\ ally_x.player[c] = "idle"
    /\ ally_x.nplays < MaxPlays
    /\ \E effect \in FfInputs :
          IF effect[1] # "FF_RUMBLE"
              THEN AllyXStep([ally_x EXCEPT !.nplays = @ + 1])
              ELSE AllyXStep([ally_x EXCEPT
                      !.nplays = @ + 1,
                      !.ff.magnitude_strong = effect[2] \div 512,
                      !.ff.magnitude_weak = effect[3] \div 512,
                      !.player[c] = IF ally_x.output_worker_initialized
                                        THEN "schedule" ELSE "idle"])

\* schedule_work(&ally_x->output_worker) of ally_x_play_effect, and return 0
ally_x_play_effect_schedule(c) ==
    /\ ally_x.player[c] = "schedule"
    /\ AllyXStep([schedule_work(ally_x) EXCEPT !.player[c] = "idle"])

\* the workqueue runs the queued output worker, one run at a time
ally_x_output_worker_run ==
    /\ ally_x.pending
    /\ ally_x.worker = "idle"
    /\ AllyXStep([ally_x EXCEPT !.pending = FALSE, !.worker = "running"])

\* ally_x_output_worker: under the lock, the two magnitudes are copied and the
\* report is sent, its result unused
ally_x_output_worker ==
    /\ ally_x.worker = "running"
    /\ \E r \in {9, -Errno.EIO} :
          LET ff == [ally_x.ff EXCEPT !.magnitude_left = ally_x.ff.magnitude_strong,
                                      !.magnitude_right = ally_x.ff.magnitude_weak]
          IN  AllyXStep([ally_x EXCEPT
                  !.ff = ff,
                  !.sent = Append(@, [ff |-> ff, ret |-> r, after |-> ally_x.remove]),
                  !.worker = "idle"])

\* ally_x_remove: output_worker_initialized = false, under the lock
ally_x_remove ==
    /\ ally_x.remove = "bound"
    /\ AllyXStep([ally_x EXCEPT !.output_worker_initialized = FALSE,
                                !.remove = "cancel"])

\* cancel_work_sync(&ally_x->output_worker): a queued work item is taken off the
\* queue
ally_x_cancel_work_sync ==
    /\ ally_x.remove = "cancel"
    /\ AllyXStep([ally_x EXCEPT !.pending = FALSE, !.remove = "cancel_wait"])

\* cancel_work_sync returns when no run of the work item is in progress
ally_x_cancel_work_sync_return ==
    /\ ally_x.remove = "cancel_wait"
    /\ ally_x.worker = "idle"
    /\ AllyXStep([ally_x EXCEPT !.remove = "cancelled"])

\* ---------------------------------------------------------- specification
\* the reports of a push of store c in which every send is accepted
PushReports(c) ==
    LET ok(buf) == SetReport(buf, FEATURE_ROG_ALLY_REPORT_SIZE)
    IN  [k \in 1..(btn_pair_lt_rt) |-> ok(__btn_pair_to_pkt(c, k))] \o
        <<ok(JsDeadzonePkt(c)), ok(TrDeadzonePkt(c)), ok(AntiDeadzonePkt(c)),
          ok(VibeIntensityPkt(c)), ok(ResponseCurveRightBuf(c)), ok(TurboPkt(c))>>

\* the device after creation and one write of m to gamepad_mode, every send accepted
Settled(m) ==
    LET ok(buf) == SetReport(buf, FEATURE_ROG_ALLY_REPORT_SIZE)
        pushed(c) ==
            /\ cfg = c
            /\ th = [t \in Threads |->
                        IF t = 1 THEN [op |-> "mode_store", pc |-> "done", ret |-> 3,
                                       val |-> m, count |-> 3, arg |-> <<m>>]
                        ELSE Idle]
            /\ log = [t \in Threads |->
                         IF t = 1 THEN <<ok(SetModePkt(m))>> \o PushReports(c) ELSE <<>>]
            /\ snap = [t \in Threads |-> IF t = 1 THEN c ELSE CfgCreate]
            /\ nops = 1
            /\ nfail = 0
            /\ hs = [pc |-> "off", count |-> 0, ret |-> 0, hidbuf2 |-> 0]
            /\ led = LedCreate
            /\ rog = asus_rog_ally_probe
            /\ reg = ally_gamepad_register_leds_done
            /\ ally_x = ally_x_create
    IN  pushed(ModeAssign(CfgCreate, m))

InitSettled == \E m \in Modes : Settled(m)

\* ally_gamepad_cfg_create has filled the store and is about to send its packets:
\* __gamepad_set_mapping(btn_pair_m1_m2), then __gamepad_set_mode(xpad_mode_game)
Init ==
    /\ cfg = CfgCreate
    /\ th = [t \in Threads |->
                IF t = 1 THEN [op |-> "create", pc |-> "create_map", ret |-> 0,
                               val |-> xpad_mode_game, count |-> 0, arg |-> <<>>]
                ELSE Idle]
    /\ log = [t \in Threads |-> <<>>]
    /\ snap = [t \in Threads |-> CfgCreate]
    /\ nops = 0
    /\ nfail = 0
    /\ hs = [pc |-> "off", count |-> 0, ret |-> 0, hidbuf2 |-> 0]
    /\ led = LedCreate
    /\ rog = asus_rog_ally_probe
    /\ reg = ally_gamepad_register_leds
    /\ ally_x = ally_x_create

\* the steps of the sending functions
SendStep(t) ==
    \/ __gamepad_set_mapping(t)
    \/ __gamepad_set_mode(t)
    \/ __gamepad_set_deadzones_js(t)
    \/ __gamepad_set_deadzones_tr(t)
    \/ __gamepad_write_js_ADZ_to_mcu(t)
    \/ __gamepad_write_vibe_intensity_to_mcu(t)
    \/ __gamepad_write_response_curves_to_mcu(t)
    \/ __gamepad_write_turbo(t)

\* the setters of the configuration store
Setter(t) ==
    \/ btn_mapping_store(t)
    \/ btn_turbo_store(t)
    \/ axis_deadzone_store(t)
    \/ xpad_axis_xy_ADZ_store(t)
    \/ rc_point_store(t)
    \/ gamepad_vibration_intensity_store(t)

Handler(t) ==
    \/ SendStep(t)
    \/ Setter(t)
    \/ btn_mapping_reset_store(t)
    \/ btn_mapping_apply_store(t)
    \/ gamepad_mode_store(t)

\* one sysfs writer: handlers run one after the other
Next == Handler(1)

Spec == Init /\ [][Next]_vars

\* two sysfs writers: nothing in the driver serialises their handlers
NextConc == \E t \in Threads : Handler(t)

SpecConc == Init /\ [][NextConc]_vars

\* two sysfs writers whose handlers never overlap: a handler is entered or goes
\* on only while the other writer runs none
NextSerial ==
    \E t \in Threads :
        /\ \A u \in Threads \ {t} : th[u].pc \in {"idle", "done"}
        /\ Handler(t)

SpecSerial == Init /\ [][NextSerial]_vars

\* probe, two writers of gamepad_mode, and removal
NextRog ==
    \/ \E t \in Threads : rog_ally_gamepad_mode_store(t)
    \/ \E t \in Threads : rog_ally__gamepad_check_ready(t)
    \/ \E t \in Threads : rog_ally__gamepad_set_mode(t)
    \/ \E t \in Threads : rog_ally__gamepad_set_deadzones(t)
    \/ \E t \in Threads : rog_ally__gamepad_set_deadzones_report(t)
    \/ asus_rog_ally_remove

SpecRog == Init /\ [][NextRog]_vars

\* two sysfs writers of the deadzone attributes, the two assignments of
\* __gamepad_store_deadzones being two steps: no lock orders them against the
\* assignments of the other writer
NextTorn ==
    \/ SendStep(1)
    \/ \E t \in Threads : __gamepad_store_deadzones_inner(t)
    \/ \E t \in Threads : __gamepad_store_deadzones_outer(t)

SpecTorn == Init /\ [][NextTorn]_vars

\* a step of one of the two LED class callbacks in caller c
LedCallback(c) ==
    \/ ally_backlight_set(c)
    \/ ally_gamepad_set_rgb_brightness(c)
    \/ ally_schedule_work(c)

\* a step of the LED work item
LedWorker ==
    \/ ally_led_work_run
    \/ ally_led_work
    \/ ally_led_do_brightness
    \/ ally_led_do_rgb
    \/ ally_led_send

\* the LED callbacks in two callers, the work item, and device removal, which ends
\* with the push of __gamepad_set_mode
NextLed ==
    \/ \E c \in LedCallers : LedCallback(c)
    \/ LedWorker
    \/ ally_gamepad_cfg_remove
    \/ cancel_work_sync
    \/ cancel_work_sync_return
    \/ SendStep(1)

SpecLed == Settled(xpad_mode_game) /\ [][NextLed]_vars

\* the end of device creation: the reports of ally_gamepad_cfg_create, then
\* ally_gamepad_register_leds, with the LED callbacks in two callers
NextReg ==
    \/ SendStep(1)
    \/ ally_gamepad_register_bright_leds
    \/ ally_gamepad_register_rgb_leds
    \/ ally_gamepad_register_leds_error
    \/ ally_gamepad_register_leds_init_work
    \/ ally_gamepad_register_leds_init_lock
    \/ \E c \in LedCallers : register_leds_callback(c)
    \/ \E c \in LedCallers : register_leds_schedule_work(c)

SpecReg == Init /\ [][NextReg]_vars

\* the Ally X input driver after ally_x_create: rumble effects played by two
\* callers, the output worker, and ally_x_remove
NextAllyX ==
    \/ \E c \in LedCallers : ally_x_play_effect(c)
    \/ \E c \in LedCallers : ally_x_play_effect_schedule(c)
    \/ ally_x_output_worker_run
    \/ ally_x_output_worker
    \/ ally_x_remove
    \/ ally_x_cancel_work_sync
    \/ ally_x_cancel_work_sync_return

SpecAllyX == Init /\ [][NextAllyX]_vars

\* ------------------------------------------ the retry loop of the handshake
\* The body of __gamepad_check_ready below its first statement: the for loop of
\* READY_MAX_TRIES rounds, as __gamepad_set_mapping would run it for the first
\* packet of device creation.  hs holds the loop's locals: count, ret, hidbuf[2].

\* the command bytes the device may answer a get-report with
EchoBytes == {xpad_cmd_check_ready, 0, xpad_cmd_set_mode}

\* a loop that runs one round too many
LoopContinues_le(count) == count <= READY_MAX_TRIES

\* for (count = 0; count < READY_MAX_TRIES; count++): the loop condition
LoopContinues(count) == count < READY_MAX_TRIES

\* ret = hidbuf[2] == xpad_cmd_check_ready
ReadyResult(hidbuf2) == IF hidbuf2 = xpad_cmd_check_ready THEN 1 ELSE 0

\* __gamepad_set_mapping calls __gamepad_check_ready: count = 0
check_ready_enter ==
    /\ th[1].pc \in DOMAIN MapStepPair
    /\ hs.pc = "off"
    /\ hs' = [pc |-> IF LoopContinues(0) THEN "set" ELSE "ret", count |-> 0, ret |-> 0,
              hidbuf2 |-> 0]
    /\ UNCHANGED <<cfg, th, log, snap, nops, nfail, led, rog, reg, ally_x>>

\* the check-ready report is sent; a failure is only logged
check_ready_set_report ==
    /\ hs.pc = "set"
    /\ \E r \in SendResults :
        /\ log' = [log EXCEPT ![1] = Append(@, SetReport(CheckReadyPkt, r))]
        /\ nfail' = IF r < 0 THEN nfail + 1 ELSE nfail
        /\ hs' = [hs EXCEPT !.pc = "get", !.ret = r, !.hidbuf2 = 0]
    /\ UNCHANGED <<cfg, th, snap, nops, led, rog, reg, ally_x>>

\* hidbuf[0..3] are zeroed and the feature report is read back (a failure is only
\* logged and leaves the buffer as it is); ret = hidbuf[2] == xpad_cmd_check_ready;
\* if (ret) break; msleep(1); count++
check_ready_get_report ==
    /\ hs.pc = "get"
    /\ \E r \in SendResults, echo \in EchoBytes :
        LET hidbuf2 == IF r < 0 THEN 0 ELSE echo
            ret == ReadyResult(hidbuf2)
            count == IF ret # 0 THEN hs.count ELSE hs.count + 1
        IN  /\ log' = [log EXCEPT ![1] =
                          Append(@, GetReport([Kzalloc(FEATURE_ROG_ALLY_REPORT_SIZE)
                                                  EXCEPT ![2] = hidbuf2], r))]
            /\ nfail' = IF r < 0 THEN nfail + 1 ELSE nfail
            /\ hs' = [pc |-> IF ret # 0 \/ ~LoopContinues(count) THEN "ret" ELSE "set",
                      count |-> count, ret |-> ret, hidbuf2 |-> hidbuf2]
    /\ UNCHANGED <<cfg, th, snap, nops, led, rog, reg, ally_x>>

\* a handshake that reports the timeout as an error
CheckReadyReturn_enomsg(count, ret) ==
    IF count = READY_MAX_TRIES THEN -Errno.ENOMSG ELSE ret

\* the end of __gamepad_check_ready: if (count == READY_MAX_TRIES) hid_warn(...);
\* kfree(hidbuf); return ret;
CheckReadyReturn(count, ret) == ret

\* __gamepad_check_ready returns ret to __gamepad_set_mapping:
\* if (ret < 0) return ret; otherwise the mapping report is built and sent
check_ready_return ==
    /\ hs.pc = "ret"
    /\ \E r \in SendResults :
        LET ret == CheckReadyReturn(hs.count, hs.ret)
            res == IF ret < 0 THEN [io |-> <<>>, ret |-> ret]
                   ELSE [io |-> <<SetReport(__btn_pair_to_pkt(cfg, MapStepPair[th[1].pc]), r)>>,
                         ret |-> r]
        IN  /\ log' = [log EXCEPT ![1] = @ \o res.io]
            /\ nfail' = nfail + Cardinality({i \in 1..Len(res.io) : res.io[i].ret < 0})
            /\ th' = [th EXCEPT ![1] = AfterCall(th[1], th[1].pc, res.ret)]
            /\ hs' = [hs EXCEPT !.pc = "done", !.ret = ret]
    /\ UNCHANGED <<cfg, snap, nops, led, rog, reg, ally_x>>

NextRetry ==
    \/ check_ready_enter
    \/ check_ready_set_report
    \/ check_ready_get_report
    \/ check_ready_return

SpecRetry == Init /\ [][NextRetry]_vars

\* the thread running the loop keeps running, and every transport call returns
FairSpecRetry == SpecRetry /\ WF_vars(NextRetry)

\* ------------------------------------------------------------ properties
\* what a report is, read off its bytes: the command, and for a mapping report the
\* pair, for a response-curve report the side byte
PktKind(buf) ==
    IF buf[2] = xpad_cmd_set_mapping THEN <<buf[2], buf[3]>>
    ELSE IF buf[2] = xpad_cmd_set_response_curve THEN <<buf[2], buf[4]>>
    ELSE <<buf[2], 0>>

\* every request of the log was accepted by the transport
AllSent(l) == \A k \in 1..Len(l) : l[k].ret >= 0

\* the report carries, for its command, the bytes stored in slot m of store c
EncodedFromSlot(buf, c, m) ==
    /\ buf[0] = FEATURE_ROG_ALLY_REPORT_ID
    /\ buf[1] = FEATURE_ROG_ALLY_CODE_PAGE
    /\ CASE buf[2] = xpad_cmd_set_mapping ->
                /\ buf[3] \in Pairs
                /\ \A i \in 0..(MAPPING_BLOCK_LEN - 1) :
                      buf[5 + i] = c.key_mapping[m - 1][buf[3] - 1][i]
         [] buf[2] = xpad_cmd_set_js_dz ->
                \A i \in 0..3 : buf[4 + i] = c.deadzones[m - 1][0][i]
         [] buf[2] = xpad_cmd_set_tr_dz ->
                \A i \in 0..3 : buf[4 + i] = c.deadzones[m - 1][1][i]
         [] buf[2] = xpad_cmd_set_adz ->
                \A i \in 0..1 : buf[4 + i] = c.anti_deadzones[m - 1][i]
         [] buf[2] = xpad_cmd_set_vibe_intensity ->
                \A i \in 0..1 : buf[4 + i] = c.vibration_intensity[m - 1][i]
         [] buf[2] = xpad_cmd_set_response_curve ->
                /\ buf[4] \in {1, 2}
                /\ \A i \in 0..7 : buf[5 + i] = c.response_curve[m - 1][buf[4] - 1][i]
         [] buf[2] = xpad_cmd_set_turbo ->
                \A i \in 0..(TURBO_BLOCK_LEN - 1) : buf[4 + i] = c.turbo_btns[m - 1][i]
         [] OTHER -> FALSE

\* C1: during a profile push, a send that fails with a transport error is the last
\* request of the push, and the push returns that error to its caller.
C1_FailFast ==
    \A t \in Threads :
        th[t].op = "apply" =>
            \A k \in 1..Len(log[t]) :
                log[t][k].ret < 0 =>
                    /\ k = Len(log[t])
                    /\ th[t].pc = "done"
                    /\ th[t].ret = log[t][k].ret

\* the sixteen reports of a push in the order the specification lists them
ListedPushOrder ==
    <<<<xpad_cmd_set_mapping, btn_pair_dpad_u_d>>, <<xpad_cmd_set_mapping, btn_pair_dpad_l_r>>,
      <<xpad_cmd_set_mapping, btn_pair_ls_rs>>, <<xpad_cmd_set_mapping, btn_pair_lb_rb>>,
      <<xpad_cmd_set_mapping, btn_pair_a_b>>, <<xpad_cmd_set_mapping, btn_pair_x_y>>,
      <<xpad_cmd_set_mapping, btn_pair_view_menu>>, <<xpad_cmd_set_mapping, btn_pair_m1_m2>>,
      <<xpad_cmd_set_mapping, btn_pair_lt_rt>>, <<xpad_cmd_set_js_dz, 0>>,
      <<xpad_cmd_set_tr_dz, 0>>, <<xpad_cmd_set_adz, 0>>, <<xpad_cmd_set_vibe_intensity, 0>>,
      <<xpad_cmd_set_response_curve, 1>>, <<xpad_cmd_set_response_curve, 2>>,
      <<xpad_cmd_set_turbo, 0>>>>

\* C2: a profile push that has returned with no failed send has transmitted exactly
\* the sixteen listed reports, in the listed order.
C2_PushOrder ==
    \A t \in Threads :
        (th[t].op = "apply" /\ th[t].pc = "done" /\ AllSent(log[t])) =>
            /\ Len(log[t]) = Len(ListedPushOrder)
            /\ \A k \in 1..Len(log[t]) :
                  /\ log[t][k].req = "set_report"
                  /\ PktKind(log[t][k].buf) = ListedPushOrder[k]

\* C3: in a profile push whose LT/RT mapping send fails, that send is the 5th
\* request and the last one, and the push returns its error.
C3_LtRtFifth ==
    \A t \in Threads :
        th[t].op = "apply" =>
            \A k \in 1..Len(log[t]) :
                (/\ PktKind(log[t][k].buf) = <<xpad_cmd_set_mapping, btn_pair_lt_rt>>
                 /\ log[t][k].ret < 0) =>
                    /\ k = 5
                    /\ Len(log[t]) = 5
                    /\ th[t].pc = "done"
                    /\ th[t].ret = log[t][k].ret

\* C4: when the response-curve step of a push has returned with every send
\* accepted, the last two reports sent are the left curve (side byte 1, the 8
\* stored left bytes of the active mode) and then the right curve (side byte 2,
\* the 8 stored right bytes).
C4_BothCurvesSent ==
    \A t \in Threads :
        (th[t].op = "apply" /\ th[t].pc = "turbo" /\ AllSent(log[t])) =>
            LET n == Len(log[t])
            IN  /\ n >= 2
                /\ PktKind(log[t][n - 1].buf) = <<xpad_cmd_set_response_curve, 1>>
                /\ PktKind(log[t][n].buf) = <<xpad_cmd_set_response_curve, 2>>
                /\ EncodedFromSlot(log[t][n - 1].buf, cfg, cfg.mode)
                /\ EncodedFromSlot(log[t][n].buf, cfg, cfg.mode)

\* C8: every configuration report written to the device is preceded, in the same
\* operation, by a check-ready report and then a read of the feature report.
C8_PolledBeforeWrite ==
    \A t \in Threads :
        \A k \in 1..Len(log[t]) :
            (log[t][k].req = "set_report" /\ log[t][k].buf[2] # xpad_cmd_check_ready) =>
                \E i \in 1..(k - 1), j \in 1..(k - 1) :
                    /\ i < j
                    /\ log[t][i].req = "set_report"
                    /\ log[t][i].buf[2] = xpad_cmd_check_ready
                    /\ log[t][j].req = "get_report"

\* the reports of a push, by command and (for mappings) pair: what a push of every
\* setting category consists of
PushCategories ==
    {<<xpad_cmd_set_mapping, p>> : p \in Pairs} \cup
    {<<c, 0>> : c \in {xpad_cmd_set_js_dz, xpad_cmd_set_tr_dz, xpad_cmd_set_adz,
                       xpad_cmd_set_vibe_intensity, xpad_cmd_set_response_curve,
                       xpad_cmd_set_turbo}}

PktCategory(buf) ==
    IF buf[2] = xpad_cmd_set_mapping THEN <<buf[2], buf[3]>> ELSE <<buf[2], 0>>

\* C5: while a valid write of m to the mode attribute runs and after it returned,
\* m is the active mode; the first report it sends is the set-mode report carrying
\* m; every later report is a profile report encoded from slot m of the store; and
\* when it has returned with every send accepted, the reports after the set-mode
\* report cover every category of the profile.
C5_ModeSwitch ==
    \A t \in Threads :
        (th[t].op = "mode_store" /\ th[t].val \in Modes) =>
            LET m == th[t].val
                l == log[t]
            IN  /\ cfg.mode = m
                /\ th[t].pc # "set_mode" => Len(l) >= 1
                /\ Len(l) >= 1 =>
                      /\ l[1].req = "set_report"
                      /\ \A i \in 0..(FEATURE_ROG_ALLY_REPORT_SIZE - 1) :
                            l[1].buf[i] =
                                CASE i = 0 -> FEATURE_ROG_ALLY_REPORT_ID
                                  [] i = 1 -> FEATURE_ROG_ALLY_CODE_PAGE
                                  [] i = 2 -> xpad_cmd_set_mode
                                  [] i = 3 -> xpad_cmd_len_mode
                                  [] i = 4 -> m
                                  [] OTHER -> 0
                /\ \A k \in 2..Len(l) :
                      /\ l[k].req = "set_report"
                      /\ l[k].buf[2] # xpad_cmd_set_mode
                      /\ EncodedFromSlot(l[k].buf, cfg, m)
                /\ (l # <<>> /\ l[1].ret < 0) => (Len(l) = 1 /\ th[t].pc = "done")
                /\ (th[t].pc = "done" /\ AllSent(l)) =>
                      {PktCategory(l[k].buf) : k \in 2..Len(l)} = PushCategories

\* a write of 2 to the mode attribute has returned its count after the set-mode
\* report and the whole push were accepted
C5_Witness ==
    /\ th[1].op = "mode_store"
    /\ th[1].val = xpad_mode_wasd
    /\ th[1].pc = "done"
    /\ th[1].ret = th[1].count
    /\ Len(log[1]) > 2
    /\ AllSent(log[1])
    /\ cfg.mode = xpad_mode_wasd

SetterOps ==
    {"mapping_store", "turbo_store", "deadzone_store", "adz_store", "rc_store", "vibe_store"}

C7_PushReadsOneState ==
    \A t \in Threads :
        th[t].op \in {"apply", "mode_store"} =>
            \A k \in 1..Len(log[t]) :
                log[t][k].buf[2] # xpad_cmd_set_mode =>
                    EncodedFromSlot(log[t][k].buf, snap[t], snap[t].mode)

\* the rounds of the retry loop that have been made: check-ready reports sent and
\* feature reports read
CheckReadySent(l) ==
    {k \in 1..Len(l) : l[k].req = "set_report" /\ l[k].buf[2] = xpad_cmd_check_ready}

ReportsRead(l) == {k \in 1..Len(l) : l[k].req = "get_report"}

\* the read at k echoed the check-ready command
EchoMatches(l, k) == l[k].req = "get_report" /\ l[k].buf[2] = xpad_cmd_check_ready

RetryLoopBounded ==
    LET l == log[1]
    IN  /\ Cardinality(CheckReadySent(l)) <= READY_MAX_TRIES
        /\ Cardinality(ReportsRead(l)) <= Cardinality(CheckReadySent(l))
        /\ \A k \in ReportsRead(l) : k - 1 \in CheckReadySent(l)
        /\ \A k \in ReportsRead(l) :
              EchoMatches(l, k) =>
                  \A j \in (k + 1)..Len(l) :
                      j \notin CheckReadySent(l) /\ j \notin ReportsRead(l)
        /\ hs.pc \in {"ret", "done"} =>
              \/ /\ hs.ret = 1
                 /\ \E k \in ReportsRead(l) : EchoMatches(l, k)
              \/ /\ hs.ret = 0
                 /\ hs.count = READY_MAX_TRIES
                 /\ Cardinality(ReportsRead(l)) = READY_MAX_TRIES
                 /\ \A k \in ReportsRead(l) : ~EchoMatches(l, k)

DeadzoneValues == {-1, 0, 1, 32, 63, 64, 65, 256}

DeadzoneRange ==
    {<<axis, inner, outer>> : axis \in xpad_axis_xy_left..xpad_axis_z_right,
                              inner \in DeadzoneValues, outer \in DeadzoneValues}

NextDeadzone == axis_deadzone_store_of(1, DeadzoneRange)

SpecDeadzone == InitSettled /\ [][NextDeadzone]_vars

\* C11: a deadzone store of (inner, outer) with 0 <= inner <= outer <= 64 to any
\* axis returns its count and a read of that axis then gives (inner, outer); a
\* store with inner > outer returns -EINVAL.
C11_DeadzoneRoundTrip ==
    th[1].op = "deadzone_store" =>
        LET axis == th[1].arg[1]
            inner == th[1].arg[2]
            outer == th[1].arg[3]
        IN  /\ (0 <= inner /\ inner <= outer /\ outer <= 64) =>
                  /\ th[1].ret = th[1].count
                  /\ axis_deadzone_show(cfg, axis) = <<inner, outer>>
            /\ inner > outer => th[1].ret = -Errno.EINVAL

\* (0, 64) was stored to the right trigger in desktop mode and reads back
C11_Witness ==
    /\ th[1].op = "deadzone_store"
    /\ th[1].arg = <<xpad_axis_z_right, 0, 64>>
    /\ cfg.mode = xpad_mode_wasd
    /\ th[1].ret = th[1].count
    /\ axis_deadzone_show(cfg, xpad_axis_z_right) = <<0, 64>>

\* ------------------------------------------------------ rejected inputs
\* the step is the return of a handler that made no transport request, returned
\* -EINVAL and left the store as it was
RejectedStep ==
    /\ th'[1].pc = "done"
    /\ th'[1].ret = -Errno.EINVAL
    /\ log'[1] = <<>>
    /\ cfg' = cfg

\* C12: a write to vibration_intensity in which the left or the right value is
\* above 64 returns -EINVAL, sends no report, and a read after it gives the same
\* left/right pair as a read before it.
C12_VibrationRejected ==
    [][(/\ nops' = nops + 1
        /\ th'[1].op = "vibe_store"
        /\ (th'[1].arg[1] > 64 \/ th'[1].arg[2] > 64)) =>
            /\ RejectedStep
            /\ gamepad_vibration_intensity_show(cfg') = gamepad_vibration_intensity_show(cfg)]_vars

\* "70 10" was rejected after "10 20" had been stored, and a read gives 10 20
C12_Witness ==
    /\ th[1].op = "vibe_store"
    /\ th[1].arg = <<70, 10>>
    /\ th[1].pc = "done"
    /\ th[1].ret = -Errno.EINVAL
    /\ log[1] = <<>>
    /\ gamepad_vibration_intensity_show(cfg) = <<10, 20>>

\* the input of a setter that is outside the setter's range
OutOfRange(op, arg) ==
    CASE op = "mode_store" -> arg[1] < xpad_mode_game \/ arg[1] > xpad_mode_mouse
      [] op = "turbo_store" -> arg[3] < 0 \/ arg[3] > 16
      [] op = "adz_store" -> arg[2] < 0 \/ arg[2] > 32
      [] op = "rc_store" -> arg[3] > 64 \/ arg[4] > 64
      [] op = "deadzone_store" -> arg[2] > 64 \/ arg[3] > 64 \/ arg[2] > arg[3]
      [] OTHER -> FALSE

\* C13: a write of an out-of-range value to the mode, a turbo, an anti-deadzone, a
\* response-curve point or a deadzone attribute returns -EINVAL, leaves the whole
\* store unchanged and makes no transport request.
C13_OutOfRangeRejected ==
    [][(nops' = nops + 1 /\ OutOfRange(th'[1].op, th'[1].arg)) => RejectedStep]_vars

\* a turbo value of 17 was rejected
C13_Witness ==
    /\ th[1].op = "turbo_store"
    /\ th[1].arg[3] = 17
    /\ th[1].pc = "done"
    /\ th[1].ret = -Errno.EINVAL
    /\ log[1] = <<>>

\* ------------------------------------------------- button mapping attributes
\* every label of the symbol table
AllLabels == {StrToCodeTable[k][4] : k \in 1..Len(StrToCodeTable)}

\* the three texts that clear a sub-slot
ClearingTexts == {<<" ">>, <<"\n">>, <<>>}

\* <<pair, side, secondary, text>>: every label written to button A, some labels
\* and every clearing text written to sub-slots of other kinds, unknown labels
MappingRange ==
    {<<btn_pair_a_b, btn_pair_side_left, FALSE, <<l>>>> : l \in AllLabels}
    \cup {<<in[1], in[2], in[3], text>> :
            in \in {<<btn_pair_a_b, btn_pair_side_left, FALSE>>,
                    <<btn_pair_a_b, btn_pair_side_right, TRUE>>,
                    <<btn_pair_m1_m2, btn_pair_side_left, FALSE>>,
                    <<btn_pair_m1_m2, btn_pair_side_right, FALSE>>,
                    <<btn_pair_lt_rt, btn_pair_side_left, TRUE>>},
            text \in ClearingTexts
                     \cup {<<"KB_T">>, <<"PAD_B", "\n">>, <<"MOUSE_LCLICK">>,
                           <<"MEDIA_VOL_UP">>, <<"bogus">>, <<" ", "\n">>}}

NextMapping == btn_mapping_store_of(1, MappingRange) \/ btn_mapping_reset_store(1)

SpecMapping == InitSettled /\ [][NextMapping]_vars

\* <<pair, side, secondary, text>>: texts that no row of the symbol table has, one
\* of them longer than buf_copy, and a known label, written to every sub-slot
LabelRange ==
    {<<pair, side, secondary, text>> :
        pair \in Pairs, side \in {btn_pair_side_left, btn_pair_side_right},
        secondary \in BOOLEAN,
        text \in {<<"bogus">>, <<"bogus", "\n">>, <<" ", "\n">>, <<"KB_W", " ">>, <<"PAD_A">>,
                  <<"MEDIA_START_RECORDING_AND_STREAMING">>}}

NextLabel ==
    \/ btn_mapping_store_of(1, LabelRange)
    \/ btn_mapping_store_overflow(1, LabelRange)

SpecLabel == InitSettled /\ [][NextLabel]_vars

\* every sub-slot of a profile: <<pair, side, secondary>>
SubSlots ==
    {<<pair, side, secondary>> :
        pair \in Pairs, side \in {btn_pair_side_left, btn_pair_side_right},
        secondary \in BOOLEAN}

\* the bytes of sub-slot s of mode m
SlotOf(ally_cfg, m, s) ==
    SubSlot(ally_cfg.key_mapping[m - 1][s[1] - 1], SubSlotOffs(s[2], s[3]))

\* the index at which the reverse lookup reads the code of a page
CodeIdx(page) ==
    CHOOSE i \in 1..(BTN_CODE_LEN - 1) :
        \E k \in 1..Len(CodeToStrTable) :
            CodeToStrTable[k][1] = page /\ CodeToStrTable[k][2] = i

\* C14: whenever the reverse lookup gives a sub-slot of the active profile a
\* non-empty label, the forward lookup of that label succeeds and yields the page
\* and the code the sub-slot holds.
C14_SymbolRoundTrip ==
    \A s \in SubSlots :
        LET slot == SlotOf(cfg, cfg.mode, s)
            label == __btn_map_to_string(cfg, s[1], s[2], s[3])
            r == __string_to_key_code(<<label>>, slot)
        IN  label # "" =>
                /\ r.ret = 0
                /\ r.out[0] = slot[0]
                /\ r.out[CodeIdx(slot[0])] = slot[CodeIdx(slot[0])]

\* KB_T was stored on button A; its code 0x2d reads back under the label KB_R, the
\* first of the two rows of that code
C14_Witness ==
    /\ th[1].op = "mapping_store"
    /\ th[1].arg = <<btn_pair_a_b, btn_pair_side_left, FALSE, <<"KB_T">>>>
    /\ th[1].ret = th[1].count
    /\ SlotOf(cfg, cfg.mode, <<btn_pair_a_b, btn_pair_side_left, FALSE>>)[2] = 45
    /\ __btn_map_to_string(cfg, btn_pair_a_b, btn_pair_side_left, FALSE) = "KB_R"

\* C15: a mapping store of one of the three clearing texts returns success, leaves
\* the addressed sub-slot of the active profile all zero, and changes no other
\* sub-slot of any mode.
C15_ClearingZeroes ==
    [][(/\ nops' = nops + 1
        /\ th'[1].op = "mapping_store"
        /\ th'[1].arg[4] \in ClearingTexts)
       => LET s == <<th'[1].arg[1], th'[1].arg[2], th'[1].arg[3]>>
          IN  /\ th'[1].ret = th'[1].count
              /\ SlotOf(cfg', cfg.mode, s) = Kzalloc(BTN_CODE_LEN)
              /\ cfg'.mode = cfg.mode
              /\ \A m \in Modes, o \in SubSlots :
                    (m # cfg.mode \/ o # s) => SlotOf(cfg', m, o) = SlotOf(cfg, m, o)]_vars

\* the newline was written to M2 in game mode, whose primary sub-slot held
\* PAD_XBOX since creation; the sub-slot next to it still holds KB_M1
C15_Witness ==
    /\ th[1].op = "mapping_store"
    /\ th[1].arg = <<btn_pair_m1_m2, btn_pair_side_left, FALSE, <<"\n">>>>
    /\ th[1].ret = th[1].count
    /\ cfg.mode = xpad_mode_game
    /\ SlotOf(cfg, cfg.mode, <<btn_pair_m1_m2, btn_pair_side_left, FALSE>>)
            = Kzalloc(BTN_CODE_LEN)
    /\ SlotOf(CfgCreate, xpad_mode_game, <<btn_pair_m1_m2, btn_pair_side_left, FALSE>>)[1] = 19
    /\ __btn_map_to_string(cfg, btn_pair_m1_m2, btn_pair_side_right, FALSE) = "KB_M1"

\* KB_W was stored as the primary mapping of button A
StoredKbW ==
    /\ th[1].op = "mapping_store"
    /\ th[1].arg = <<btn_pair_a_b, btn_pair_side_left, FALSE, <<"KB_W">>>>
    /\ th[1].ret = th[1].count

\* where the primary-left sub-slot of a pair's block starts in the set-mapping report
PrimaryLeftAt == 5 + SubSlotOffs(btn_pair_side_left, FALSE)

\* C16 as stated: once KB_W is stored on button A, the A/B set-mapping report holds
\* 0x02 and 0x1D as the first two bytes of the primary-left sub-slot.
C16_FirstTwoBytes ==
    StoredKbW =>
        LET pkt == __btn_pair_to_pkt(cfg, btn_pair_a_b)
        IN  pkt[PrimaryLeftAt] = 2 /\ pkt[PrimaryLeftAt + 1] = 29

\* C16 as the code has it: once KB_W is stored on button A, the A/B set-mapping
\* report holds the page 0x02 as the first byte of the primary-left sub-slot and
\* the code 0x1D as its third byte, every other byte of the sub-slot being zero.
C16_PageThenCodeAtTwo ==
    StoredKbW =>
        LET pkt == __btn_pair_to_pkt(cfg, btn_pair_a_b)
        IN  /\ pkt[2] = xpad_cmd_set_mapping
            /\ pkt[3] = btn_pair_a_b
            /\ \A i \in 0..(BTN_CODE_LEN - 1) :
                    pkt[PrimaryLeftAt + i] = (CASE i = 0 -> 2 [] i = 2 -> 29 [] OTHER -> 0)

C16_Witness ==
    /\ StoredKbW
    /\ cfg.mode = xpad_mode_mouse
    /\ __btn_pair_to_pkt(cfg, btn_pair_a_b)[PrimaryLeftAt + 2] = 29

\* the code pages of the symbol table
CodePages == {StrToCodeTable[k][1] : k \in 1..Len(StrToCodeTable)}

\* the codes the symbol table has for each page
ValidCodes ==
    [page \in CodePages |->
        {StrToCodeTable[k][3] : k \in {j \in 1..Len(StrToCodeTable) :
                                            StrToCodeTable[j][1] = page}}]

\* the index of each page's code
CodeIdxOf == [page \in CodePages |-> CodeIdx(page)]

\* a sub-slot is unbound, or holds a page and one code of that page and nothing else
WellFormed(slot) ==
    \/ slot = Kzalloc(BTN_CODE_LEN)
    \/ /\ slot[0] \in CodePages
       /\ slot[CodeIdxOf[slot[0]]] \in ValidCodes[slot[0]]
       /\ slot = DefSlot(slot[0], CodeIdxOf[slot[0]], slot[CodeIdxOf[slot[0]]])

DefaultTableOf(m) == IF m = xpad_mode_wasd THEN WASD_DEF ELSE XPAD_DEF

\* C18: a reset issued while mode m is active leaves every pair of mode m's own
\* profile equal to its default block (the WASD table in desktop mode, the xpad
\* table in the other modes) and leaves the mappings of the other modes as they
\* were.
C18_ResetOwnProfile ==
    [][(nops' = nops + 1 /\ th'[1].op = "mapping_reset")
       => /\ cfg'.mode = cfg.mode
          /\ \A p \in Pairs :
                cfg'.key_mapping[cfg.mode - 1][p - 1] = DefaultTableOf(cfg.mode)[p]
          /\ \A o \in Modes \ {cfg.mode} :
                cfg'.key_mapping[o - 1] = cfg.key_mapping[o - 1]]_vars

\* ---------------------------------------------------- calibration attributes
\* <<x_stable, x_min, x_max, y_stable, y_min, y_max>> written for a stick: values
\* of one and of two bytes, one beyond 16 bits and a negative one
StickValues ==
    {<<xs, xmin, xmax, 4660, ymin, ymax>> :
        xs \in {0, 2048}, xmin \in {255, 256}, xmax \in {4095, 65535},
        ymin \in {-1, 1}, ymax \in {3, 70000}}

\* <<axis, numbers written>>
CalRange ==
    {<<axis, v>> : axis \in {xpad_axis_xy_left, xpad_axis_xy_right}, v \in StickValues}
    \cup {<<xpad_axis_xy_left, <<100, 50, 900, 110, 60, 950>>>>,
          <<xpad_axis_xy_right, <<1, 2, 3>>>>,
          <<xpad_axis_z_left, <<10, 200>>>>,
          <<xpad_axis_z_right, <<7>>>>}

NextCal ==
    \/ xpad_axis_cal_store_of(1, CalRange)
    \/ xpad_axis_cal_reset_store(1)

SpecCal == InitSettled /\ [][NextCal]_vars

\* the bytes of report pkt at from..to, in order
RECURSIVE BytesAt(_, _, _)
BytesAt(pkt, from, to) ==
    IF to < from THEN <<>> ELSE <<pkt[from]>> \o BytesAt(pkt, from + 1, to)

\* the left stick's calibration was written as 100 50 900 110 60 950 and its
\* report was built and handed to the transport
ScenarioStored ==
    /\ th[1].op = "cal_store"
    /\ th[1].arg = <<xpad_axis_xy_left, <<100, 50, 900, 110, 60, 950>>>>
    /\ Len(log[1]) >= 1

\* C19 as stated: the scenario leaves (100, 50, 900) as the first three stored
\* entries and (110, 60, 950) as the last three, and the report's checksum byte is
\* the sum mod 256 of its 12 value bytes.
C19_FirstGroupFirst ==
    ScenarioStored =>
        LET pkt == log[1][1].buf
        IN  /\ cfg.js_calibrations[0] = Assign(Kzalloc(6), 0, <<100, 50, 900, 110, 60, 950>>)
            /\ pkt[18] = SumBytes(BytesAt(pkt, 6, 17)) % 256

\* C19 as the code has it: the scenario's numbers are read as x_stable, x_min,
\* x_max, y_stable, y_min, y_max, so the stored layout is (110, 60, 950), the
\* y-group, followed by (100, 50, 900), the x-group; the report's checksum byte is
\* the sum mod 256 of its 12 value bytes.
C19_YGroupFirst ==
    ScenarioStored =>
        LET pkt == log[1][1].buf
        IN  /\ cfg.js_calibrations[0] = Assign(Kzalloc(6), 0, <<110, 60, 950, 100, 50, 900>>)
            /\ BytesAt(pkt, 6, 17) = <<0, 110, 0, 60, 3, 182, 0, 100, 0, 50, 3, 132>>
            /\ pkt[18] = SumBytes(BytesAt(pkt, 6, 17)) % 256

C19_Witness ==
    /\ ScenarioStored
    /\ Len(log[1]) = 2
    /\ th[1].ret = FEATURE_ROG_ALLY_REPORT_SIZE
    /\ log[1][1].buf[18] = 128

\* a stick's calibration was written and its report handed to the transport
StickReportSent ==
    /\ th[1].op = "cal_store"
    /\ th[1].arg[1] \in {xpad_axis_xy_left, xpad_axis_xy_right}
    /\ Len(log[1]) >= 1

\* the report carries y_stable, y_min, y_max, x_stable, x_min, x_max of the numbers
\* written (their low 16 bits) as big-endian fields from byte 6 on, then their
\* byte sum mod 256
StickFieldsAndSum ==
    LET pkt == log[1][1].buf
        in == th[1].arg[2]
        order == <<in[4], in[5], in[6], in[1], in[2], in[3]>>
    IN  /\ \A i \in 0..5 : pkt[6 + 2 * i] * 256 + pkt[7 + 2 * i] = order[i + 1] % 65536
        /\ pkt[18] = SumBytes(BytesAt(pkt, 6, 17)) % 256

\* C20: a stick's calibration report carries the six values as big-endian 16-bit
\* fields in the order y-stable, y-min, y-max, x-stable, x-min, x-max, then one
\* byte equal to the sum of those 12 bytes mod 256, and that byte is the last of
\* the payload bytes that follow the 4-byte header, as many as byte 3 declares.
C20_ChecksumEndsPayload ==
    StickReportSent =>
        /\ StickFieldsAndSum
        /\ 4 + log[1][1].buf[3] - 1 = 18

\* a trigger's calibration was written and its report handed to the transport
TriggerReportSent ==
    /\ th[1].op = "cal_store"
    /\ th[1].arg[1] \in {xpad_axis_z_left, xpad_axis_z_right}
    /\ Len(log[1]) >= 1

\* C21: a trigger's calibration report carries, from byte 6 on, the two values
\* (stable, max) the trigger calibration store holds for that side, two bytes each,
\* and every byte after them is zero: no checksum byte follows.
C21_TriggerValuesNoChecksum ==
    TriggerReportSent =>
        LET pkt == log[1][1].buf
            tr == cfg.tr_calibrations[CalSide(th[1].arg[1])]
        IN  /\ BytesAt(pkt, 6, 9) = CalBytes(tr[0]) \o CalBytes(tr[1])
            /\ \A i \in 10..(FEATURE_ROG_ALLY_REPORT_SIZE - 1) : pkt[i] = 0

\* the sub-code of a calibration report: hidbuf[4] of a report whose command is
\* xpad_cmd_set_calibration, 0 for any other report
CalSubCode(buf) == IF buf[2] = xpad_cmd_set_calibration THEN buf[4] ELSE 0

\* C22: in the requests of a calibration store or reset, a set report (sub-code
\* 0x01) or reset report (sub-code 0x02) that the transport accepted is directly
\* followed by a commit report (sub-code 0x03); one that the transport refused is
\* the last request, and its error is what the handler returns.
C22_CommitFollows ==
    \A k \in 1..Len(log[1]) :
        CalSubCode(log[1][k].buf) \in {1, 2} =>
            IF log[1][k].ret >= 0
                THEN /\ k < Len(log[1])
                     /\ log[1][k + 1].buf = CalCommitPkt
                     /\ CalSubCode(log[1][k + 1].buf) = 3
            ELSE /\ k = Len(log[1])
                 /\ th[1].ret = log[1][k].ret

\* a reset whose first report was accepted; the commit report followed it
C22_Witness ==
    /\ th[1].op = "cal_reset"
    /\ Len(log[1]) = 2
    /\ log[1][1].ret >= 0
    /\ CalSubCode(log[1][1].buf) = 2
    /\ CalSubCode(log[1][2].buf) = 3

\* a stick's calibration store read its six numbers: it was not rejected by sscanf
StickStored ==
    /\ th[1].op = "cal_store"
    /\ th[1].arg[1] \in {xpad_axis_xy_left, xpad_axis_xy_right}
    /\ th[1].ret # -Errno.EINVAL

\* C23: after a calibration store of x_stable, x_min, x_max, y_stable, y_min,
\* y_max to a stick, a read of that stick's calibration gives the same six values
\* in the same order, the store holding the y-group before the x-group; so also
\* when a send of the store failed.
C23_CalRoundTrip ==
    StickStored =>
        LET axis == th[1].arg[1]
            in == th[1].arg[2]
            js == cfg.js_calibrations[CalSide(axis)]
        IN  /\ __gamepad_cal_show(cfg, axis) = SubSeq(in, 1, 6)
            /\ <<js[0], js[1], js[2]>> = SubSeq(in, 4, 6)
            /\ <<js[3], js[4], js[5]>> = SubSeq(in, 1, 3)

\* the right stick was written six numbers whose groups differ, and the set report
\* was refused
C23_Witness ==
    /\ StickStored
    /\ th[1].arg = <<xpad_axis_xy_right, <<2048, 256, 65535, 4660, -1, 70000>>>>
    /\ th[1].ret < 0
    /\ Len(log[1]) = 1
    /\ __gamepad_cal_show(cfg, xpad_axis_xy_right) = <<2048, 256, 65535, 4660, -1, 70000>>

\* ------------------------------------------------------------------- apply
\* writer t has written to btn_mapping_apply and the push has read the store
Applying(t) == th[t].op = "apply" /\ th[t].pc # WriteAllOrder[1]

BrightnessSent == {k \in 1..Len(led.sent) : led.sent[k].buf[1] = 186}
RgbSent == {k \in 1..Len(led.sent) : led.sent[k].buf[2] = xpad_cmd_set_leds}

\* the last of a non-empty set of positions
LastPos(S) == CHOOSE k \in S : \A j \in S : j <= k

\* C25: the worker sends at most one report per value set, and when it is idle and
\* neither update flag is set, the last brightness report handed to the transport
\* carries the brightness set last and the last colour report the colour set last,
\* whenever one was set: for every interleaving of the callbacks and the worker.
C25_LatestValueSent ==
    /\ Cardinality(BrightnessSent) <= led.nbright
    /\ Cardinality(RgbSent) <= led.nrgb
    /\ led.work = "idle" /\ ~led.update_bright /\ ~led.update_rgb =>
        /\ led.nbright > 0 =>
            /\ BrightnessSent # {}
            /\ led.sent[LastPos(BrightnessSent)].buf = BrightnessPkt(led)
        /\ led.nrgb > 0 =>
            /\ RgbSent # {}
            /\ led.sent[LastPos(RgbSent)].buf = RgbPkt(led)

\* the brightness was set twice and the colour once; the idle worker has sent one
\* brightness report and one colour report
C25_Witness ==
    /\ led.work = "idle" /\ ~led.pending /\ ~led.update_bright /\ ~led.update_rgb
    /\ led.nbright = 2 /\ led.nrgb = 1
    /\ Cardinality(BrightnessSent) = 1
    /\ Cardinality(RgbSent) = 1
    /\ led.sent[LastPos(BrightnessSent)].buf[4] = led.brightness

\* C26: once ally_gamepad_cfg_remove has set led->removed and its cancel_work_sync
\* has returned, no step starts a run of the LED worker and no step hands an LED
\* report to the transport, whatever the callbacks do meanwhile.
C26_NoLedWorkAfterRemove ==
    [][led.remove = "cancelled" =>
          /\ led'.work = "idle"
          /\ led'.sent = led.sent
          /\ ~led'.pending]_vars

\* after the removal a callback has set a value and returned from
\* ally_schedule_work: the value waits, the work item is neither queued nor running
C26_Witness ==
    /\ led.remove = "cancelled"
    /\ led.update_bright
    /\ \A c \in LedCallers : led.caller[c] = "idle"
    /\ led.work = "idle" /\ ~led.pending
    /\ led.sent # <<>>
    /\ th[1].op = "remove" /\ th[1].pc = "done"

\* ------------------------------------------------------------------ frames
\* the command reports handed to the transport: those of the sysfs handlers and
\* the removal, and the colour reports of the LED worker (the backlight report of
\* ally_led_do_brightness is not a command of the 0xD1 code page)
CommandReports ==
    UNION {{log[t][k].buf : k \in 1..Len(log[t])} : t \in Threads}
        \cup {led.sent[k].buf : k \in RgbSent}

\* the payload lengths the driver declares for a command
PayloadLengths(cmd) ==
    CASE cmd = xpad_cmd_set_mode -> {xpad_cmd_len_mode}
      [] cmd = xpad_cmd_set_mapping -> {xpad_cmd_len_mapping}
      [] cmd \in {xpad_cmd_set_js_dz, xpad_cmd_set_tr_dz} -> {xpad_cmd_len_deadzone}
      [] cmd = xpad_cmd_set_adz -> {xpad_cmd_len_adz}
      [] cmd = xpad_cmd_set_vibe_intensity -> {xpad_cmd_len_vibe_intensity}
      [] cmd = xpad_cmd_set_response_curve -> {xpad_cmd_len_response_curve}
      [] cmd = xpad_cmd_set_turbo -> {xpad_cmd_len_turbo}
      [] cmd = xpad_cmd_set_leds -> {xpad_cmd_len_leds}
      [] cmd = xpad_cmd_set_calibration ->
             {CalPktLen(a) : a \in xpad_axis_xy_left..xpad_axis_z_right}
                 \cup {xpad_cmd_len_calibration2, xpad_cmd_len_calibration3}
      [] OTHER -> {}

\* <<axis, numbers written>>: a stick and a trigger
FrameCalRange ==
    {<<xpad_axis_xy_left, <<100, 50, 900, 110, 60, 950>>>>,
     <<xpad_axis_z_right, <<10, 200>>>>}

\* after a mode switch and its push by writer 1: a calibration store or reset by
\* writer 2, the LED callbacks in one caller and the LED work item
NextFrames ==
    \/ xpad_axis_cal_store_of(2, FrameCalRange)
    \/ xpad_axis_cal_reset_store(2)
    \/ LedCallback(1)
    \/ LedWorker

SpecFrames == Settled(xpad_mode_game) /\ [][NextFrames]_vars

PayloadEnd(buf) ==
    IF buf[2] = xpad_cmd_set_mapping THEN 4 + buf[4] ELSE 3 + buf[3]

\* C28: in every command report handed to the transport, every byte after the
\* header and the payload whose length the report declares is zero, also when one
\* buffer is used for two consecutive reports.
C28_ZeroBeyondPayload ==
    \A buf \in CommandReports :
        \A i \in DOMAIN buf : i > PayloadEnd(buf) => buf[i] = 0

\* ------------------------------------------------------- the older variant
\* a handler of the older variant has returned in thread t
RogDone(t) ==
    rog.th[t].pc = "done" /\ rog.th[t].op \in {"probe", "store", "dz_store", "remove"}

\* the positions of the set-mode reports among the requests of thread t
RogSetModeAt(t) ==
    {k \in 1..Len(rog.log[t]) :
        rog.log[t][k].req = "set_report" /\ rog.log[t][k].buf[2] = ally_xpad_cmd_set_mode}

\* C29: in the older variant, when a mode change has returned, a set-mode report
\* that was accepted is followed by exactly one report priming the M1/M2 bindings
\* and the mode change has returned success whether or not that report was
\* accepted; a set-mode report that was refused is followed by no report.
C29_PrimingFollows ==
    \A t \in Threads : RogDone(t) =>
        \A k \in RogSetModeAt(t) :
            IF rog.log[t][k].ret < 0
                THEN k = Len(rog.log[t]) /\ rog.th[t].ret < 0
                ELSE /\ Len(rog.log[t]) = k + 1
                     /\ rog.log[t][k + 1] \in
                            {SetReport(RogPrimePkt(rog.th[t].val), r) :
                                 r \in {FEATURE_ROG_ALLY_REPORT_SIZE, -Errno.EIO}}
                     /\ rog.th[t].ret = IF rog.th[t].op = "store" THEN rog.th[t].count
                                        ELSE 0

\* a write of 2 to gamepad_mode has returned its count although the priming report
\* was refused
C29_Witness ==
    \E t \in Threads :
        /\ RogDone(t) /\ rog.th[t].op = "store" /\ rog.th[t].val = xpad_mode_wasd
        /\ rog.th[t].ret = rog.th[t].count
        /\ rog.mode = xpad_mode_wasd
        /\ Len(rog.log[t]) = 4
        /\ rog.log[t][3].buf[2] = ally_xpad_cmd_set_mode /\ rog.log[t][3].ret >= 0
        /\ rog.log[t][4].buf[2] = xpad_cmd_set_mapping /\ rog.log[t][4].ret < 0

\* ------------------------------------------------------- ranges of the store
\* C30: in every reachable state in which no handler is between two of its
\* statements, every stored deadzone of every mode has inner <= outer <= 64 and
\* every stored vibration intensity is at most 64.
C30_StoreInRange ==
    (\A t \in Threads : th[t].pc \in {"idle", "done"}) =>
        \A m \in 0..(xpad_mode_mouse - 1) :
            /\ \A g \in 0..1 : \A side \in {0, 2} :
                  /\ cfg.deadzones[m][g][side] <= cfg.deadzones[m][g][side + 1]
                  /\ cfg.deadzones[m][g][side + 1] <= 64
            /\ \A side \in 0..1 : cfg.vibration_intensity[m][side] <= 64

\* C31: in every reachable state every stored response-curve byte (move and
\* response of each of the four points, of each side, of each mode) lies in 1..63,
\* the values set at device creation included.
C31_CurveInRange ==
    \A m \in 0..(xpad_mode_mouse - 1) : \A side \in 0..1 : \A i \in 0..7 :
        /\ 1 <= cfg.response_curve[m][side][i]
        /\ cfg.response_curve[m][side][i] <= 63

\* ------------------------------------------------------- unknown labels
\* the text is no clearing text and, up to its first newline, the label of no row
\* of the symbol table
UnknownLabel(text) ==
    /\ text \notin ClearingTexts
    /\ \A k \in 1..Len(StrToCodeTable) : StripNewline(text) # <<StrToCodeTable[k][4]>>

\* C32: a mapping store of a label that none of the four code pages has returns an
\* error and leaves the addressed sub-slot as it was before the call, and changes
\* no other sub-slot: the handler's step ends the call with a negative value and
\* the store unchanged.
C32_UnknownLabelRestored ==
    [][(/\ nops' = nops + 1
        /\ th'[1].op = "mapping_store"
        /\ UnknownLabel(th'[1].arg[4]))
       => /\ th'[1].pc = "done"
          /\ th'[1].ret < 0
          /\ cfg' = cfg]_vars

\* ------------------------------------------------------- label round trip
\* C33: for every label the forward lookup accepts, a store of that label in a
\* sub-slot followed by a read of the sub-slot gives the same label, in all four
\* code pages.
C33_LabelRoundTrip ==
    (/\ th[1].op = "mapping_store"
     /\ th[1].ret = th[1].count
     /\ th[1].arg[4] \in {<<l>> : l \in AllLabels})
    => <<__btn_map_to_string(cfg, th[1].arg[1], th[1].arg[2], th[1].arg[3])>> = th[1].arg[4]

\* ------------------------------------------------------- mode sent and mode pushed
\* C34: whenever a set-mode report carrying m has been sent and the reports of a
\* profile push follow it (mode store, device creation, device removal), each of
\* those reports is encoded from slot m of the store.
C34_PushFromSentMode ==
    \A t \in Threads : \A k \in 1..Len(log[t]) :
        log[t][k].buf[2] = xpad_cmd_set_mode =>
            \A j \in (k + 1)..Len(log[t]) :
                EncodedFromSlot(log[t][j].buf, cfg, log[t][k].buf[4])

\* ------------------------------------------------------- what a setter changes
\* store d is store c but for the field of the active mode's profile that the
\* setter op addresses with arg
OnlyAddressed(op, arg, c, d) ==
    LET m == c.mode - 1
        map_offs == SubSlotOffs(arg[2], arg[3])
        field ==
            CASE op = "mapping_store" ->
                    [c EXCEPT !.key_mapping[m][arg[1] - 1] =
                        Memcpy(@, map_offs,
                               SubSlot(d.key_mapping[m][arg[1] - 1], map_offs), BTN_CODE_LEN)]
              [] op = "turbo_store" ->
                    LET idx == __btn_turbo_index(arg[1], arg[2])
                    IN  IF idx < TURBO_BLOCK_LEN
                            THEN [c EXCEPT !.turbo_btns[m][idx] = d.turbo_btns[m][idx]]
                            ELSE c
              [] op = "deadzone_store" ->
                    LET is_tr == IF arg[1] > xpad_axis_xy_right THEN 1 ELSE 0
                        side == IF arg[1] = xpad_axis_xy_right \/ arg[1] = xpad_axis_z_right
                                    THEN 2 ELSE 0
                    IN  [c EXCEPT !.deadzones[m][is_tr][side] = d.deadzones[m][is_tr][side],
                                  !.deadzones[m][is_tr][side + 1] =
                                      d.deadzones[m][is_tr][side + 1]]
              [] op = "adz_store" ->
                    [c EXCEPT !.anti_deadzones[m][arg[1]] = d.anti_deadzones[m][arg[1]]]
              [] op = "vibe_store" ->
                    [c EXCEPT !.vibration_intensity[m] = d.vibration_intensity[m]]
              [] op = "rc_store" ->
                    LET idx == (arg[2] - 1) * 2
                    IN  [c EXCEPT !.response_curve[m][arg[1]][idx] =
                                      d.response_curve[m][arg[1]][idx],
                                  !.response_curve[m][arg[1]][idx + 1] =
                                      d.response_curve[m][arg[1]][idx + 1]]
    IN  d = field

ModeStoreDone(t) ==
    th[t].op = "mode_store" /\ th[t].val \in Modes /\ th[t].pc = "done"

\* C36: when a write of a valid mode m to gamepad_mode has returned, a refused
\* set-mode report has made it return that error, as has every failure the push
\* hands back, and whenever it returned an error the stored active mode is m all
\* the same: reads and setters that follow address mode m's profile.
C36_FailedModeStoreKeepsMode ==
    ModeStoreDone(1) =>
        /\ log[1] # <<>>
        /\ log[1][1].ret < 0 => th[1].ret = log[1][1].ret
        /\ th[1].ret < 0 =>
              /\ \E k \in 1..Len(log[1]) : log[1][k].ret = th[1].ret
              /\ cfg.mode = th[1].val

\* the write of 2 to gamepad_mode after creation in mode 1 was refused at its
\* set-mode report
C36_Witness ==
    /\ ModeStoreDone(1)
    /\ th[1].val = xpad_mode_wasd
    /\ Len(log[1]) = 1
    /\ log[1][1].buf[2] = xpad_cmd_set_mode /\ log[1][1].ret = -Errno.EIO
    /\ th[1].ret = -Errno.EIO
    /\ cfg.mode = xpad_mode_wasd

\* ------------------------------------------------------- deadzone commands
\* the report of the current variant that carries the pair stored for axis, after
\* <<inner, outer>> was stored for it in store c
PrimaryDeadzoneReport(c, axis, inner, outer) ==
    LET stored == __gamepad_store_deadzones(c, axis, inner, outer).cfg
    IN  IF axis <= xpad_axis_xy_right THEN JsDeadzonePkt(stored) ELSE TrDeadzonePkt(stored)

\* the deadzone reports among the requests of thread t of the older variant
RogDeadzoneAt(t) ==
    {k \in 1..Len(rog.log[t]) :
        /\ rog.log[t][k].req = "set_report"
        /\ rog.log[t][k].buf[2] \in {ally_xpad_cmd_set_js_dz, ally_xpad_cmd_set_tr_dz}}

\* C37: a pair stored for a stick axis goes out in a report whose command is
\* set-joystick-deadzone and a pair stored for a trigger axis in a report whose
\* command is set-trigger-deadzone: in the current variant, for every pair the
\* store accepts, and in the older variant, for every report a deadzone store sent.
C37_DeadzoneCommands ==
    /\ \A axis \in xpad_axis_xy_left..xpad_axis_z_right, inner \in {0, 10}, outer \in {20, 64} :
          LET buf == PrimaryDeadzoneReport(cfg, axis, inner, outer)
              side == IF axis \in {xpad_axis_xy_right, xpad_axis_z_right} THEN 2 ELSE 0
          IN  /\ buf[2] = IF axis <= xpad_axis_xy_right THEN xpad_cmd_set_js_dz
                          ELSE xpad_cmd_set_tr_dz
              /\ buf[4 + side] = inner /\ buf[5 + side] = outer
    /\ \A t \in Threads :
          rog.th[t].op = "dz_store" =>
              \A k \in RogDeadzoneAt(t) :
                  LET in == rog.th[t].arg
                      buf == rog.log[t][k].buf
                  IN  /\ buf[2] = IF in[1] \in {ally_xpad_axis_xy_left, ally_xpad_axis_xy_right}
                                      THEN ally_xpad_cmd_set_js_dz
                                      ELSE ally_xpad_cmd_set_tr_dz
                      /\ buf[4 + RogSide(in[1])] = in[2]
                      /\ buf[5 + RogSide(in[1])] = in[3]

\* ------------------------------------------------------- the older handshake
\* the handshake of the handler in thread t of the older variant failed: its
\* check-ready report was refused, or the read was refused, or the read echoed a
\* command other than check-ready
RogHandshakeFailed(t) ==
    LET l == rog.log[t]
    IN  \/ Len(l) >= 1 /\ l[1].ret < 0
        \/ Len(l) >= 2 /\ l[2].req = "get_report"
              /\ (l[2].ret < 0 \/ l[2].buf[2] # ally_xpad_cmd_check_ready)

\* C38: in the older variant a handler makes the handshake once: its first request
\* is the check-ready report, no later request is one, and when the handshake has
\* failed the handler has returned a negative error and has made no request after
\* the failing one, so no set-mode, deadzone or mapping report was sent.
C38_SingleHandshake ==
    \A t \in Threads :
        LET l == rog.log[t]
        IN  /\ l # <<>> =>
                  /\ l[1] \in {SetReport(RogCheckReadyPkt, r) :
                                  r \in {FEATURE_ROG_ALLY_REPORT_SIZE, -Errno.EIO}}
                  /\ \A k \in 2..Len(l) :
                        ~(l[k].req = "set_report" /\ l[k].buf[2] = ally_xpad_cmd_check_ready)
            /\ RogHandshakeFailed(t) =>
                  /\ rog.th[t].pc = "done" /\ rog.th[t].ret < 0
                  /\ Len(l) <= 2
                  /\ \A k \in 1..Len(l) :
                        l[k].req = "set_report" => l[k].buf[2] = ally_xpad_cmd_check_ready

\* a deadzone store of the older variant has returned -ENOMSG after the read
\* echoed another command, and sent nothing else
C38_Witness ==
    \E t \in Threads :
        /\ rog.th[t].op = "dz_store" /\ rog.th[t].pc = "done"
        /\ rog.th[t].ret = -Errno.ENOMSG
        /\ Len(rog.log[t]) = 2
        /\ rog.log[t][2].ret >= 0 /\ rog.log[t][2].buf[2] # ally_xpad_cmd_check_ready

\* ------------------------------------------------- registration of the LEDs
\* C39: while ally_gamepad_register_leds runs and after it, a registered LED class
\* device implies that the work item and the spinlock are initialised, and neither
\* a callback nor cancel_work_sync (the error paths included) has used the work
\* item or the spinlock before its initialisation.
C39_InitBeforeRegister ==
    /\ (reg.bright_dev \/ reg.rgb_dev) => (reg.work_init /\ reg.lock_init)
    /\ reg.uninit = {}

\* ----------------------------------------------------------------- Ally X
\* C40: once ally_x_remove has cleared output_worker_initialized and its
\* cancel_work_sync has returned, the output worker is neither queued nor running,
\* and no report it sent was sent after that return.
C40_NoWorkAfterCancel ==
    ally_x.remove = "cancelled" =>
        /\ ~ally_x.output_worker_initialized
        /\ ~ally_x.pending
        /\ ally_x.worker = "idle"
        /\ \A k \in 1..Len(ally_x.sent) : ally_x.sent[k].after # "cancelled"

====
